---- MODULE Spec2Model ----
(***************************************************************************)
(* A model of the RITC2025 trading agent.                                  *)
(*                                                                         *)
(*   SpecBook       the linked-list limit order book of                     *)
(*                  RITC/base/OrderBook.py: insert_order, the fee setter   *)
(*                  and the VWAP query.                                    *)
(*   SpecPortfolio  the position ledger of RITC/base/Portfolio.py and its   *)
(*                  refresh from the venue in base/ApiTrading.py.          *)
(*   SpecPlace      the order gateway of base/ApiTrading.py: the rate      *)
(*                  limiter and place_order under every trade rule.        *)
(*   SpecOrders     the life of an order in base/ApiTrading.py:            *)
(*                  place_order, the cancels and the reconciliation of     *)
(*                  active orders with the venue.                          *)
(*   SpecTender     accept_tender_check_limits over the position ledger.   *)
(*   SpecFx         the exchange rates of BankAccount and the currency     *)
(*                  conversion.                                            *)
(*   SpecValue      calculate_total_profit over a fed ladder.              *)
(*   SpecAssist     limit_order_assistant over a fed ladder.               *)
(*   SpecTenderSignal, SpecConvert, SpecEtf                                *)
(*                  the signal calculators of ALGO/ArbitrageStrategy.py,   *)
(*                  each over the books and rates it reads.                *)
(*   SpecSignals    the three calculators called in any order.             *)
(*   SpecLoop       auto_trading of ALGO/ALGOStrategy.py, its four         *)
(*                  strategies, and the command thread beside it.          *)
(*   SpecHedge      the FX hedge loop at the end of a pass of the loop.    *)
(*   SpecTenders    the tender book of RITC/base/NewsBook.py under the     *)
(*                  polls of ClientDataFetcher.get_tenders.                *)
(*   SpecEdit       the order book under inserts, deletes and clears,      *)
(*                  beside the gateway's orders.                           *)
(*   SpecRate       the rate-limit window under the wall clock, the main   *)
(*                  loop's check and the operator's manual orders.         *)
(*   SpecRates      the exchange-rate table with three currencies.         *)
(*   SpecPass       passes of strategy1 over several tenders.              *)
(*                                                                         *)
(* Prices, volumes and positions are integers.  A Python float quotient    *)
(* a / b is kept as the exact fraction [num |-> a, den |-> b] and compared  *)
(* by cross-multiplication.                                                *)
(***************************************************************************)
EXTENDS Integers, Sequences, FiniteSets, TLC

VARIABLES
    \* ---- OrderBook (one instrument) ----
    orders,           \* every Order object ever built, by creation ordinal
    next,             \* Order.next of each object (0 is None)
    prev,             \* Order.prev of each object (0 is None)
    bid_head,         \* OrderBook.bid_head (0 is None)
    ask_head,         \* OrderBook.ask_head (0 is None)
    bid_map,          \* OrderBook.bid_map: price -> list of orders
    ask_map,          \* OrderBook.ask_map
    transaction_fee,  \* OrderBook.transaction_fee
    book_call,        \* the most recent call on the book and what it returned
    \* ---- Portfolio / ApiTrading ----
    assets,           \* Portfolio.assets: ticker -> Asset
    gross_limit,      \* Portfolio.gross_limit
    net_limit,        \* Portfolio.net_limit
    max_usage,        \* Portfolio.max_usage, in percent
    gross_position,   \* Portfolio.gross_position (as last reported by the venue)
    net_position,     \* Portfolio.net_position
    pf_call,          \* the most recent call on the portfolio and what it returned
    \* ---- ApiTrading: orders and tenders ----
    trade_rules,      \* per ticker: Asset.is_tradeable, is_shortable, maximum_trade_size
    history_orders,   \* ApiTrading.history_orders: order id -> Order
    active_orders,    \* ApiTrading.active_orders
    completed_orders, \* ApiTrading.completed_orders
    cancelled_orders, \* ApiTrading.cancelled_orders
    accepted_tenders, \* ApiTrading.accepted_tenders
    order_timestamps, \* ApiTrading.order_timestamps (a deque, oldest first)
    clock,            \* time(), in seconds
    api_call,         \* the most recent call on the gateway and what it returned
    \* ---- BankAccount ----
    exchange_rates,   \* BankAccount.exchange_rates: base -> the quote and its bid / ask
    subaccounts,      \* BankAccount.subaccounts: currency -> CashAccount.cash
    fx_call,          \* the most recent conversion and what it returned
    \* ---- ALGOStrategy ----
    ladders,          \* books: name -> the bids and asks met from each head
    sig_call,         \* the most recent signal calculation and what it returned
    pc,               \* where the main thread stands in auto_trading
    reconciled,       \* the strategy whose update_data last ran in this iteration
    toggles,          \* pausing and the four strategy switches
    unwind,           \* strategy1's locals while it closes an accepted tender
    unhedged_tenders, \* unhedged_tenders[ticker] of the tendered instrument
    commands,         \* the number of commands the operator has entered
    usd_,             \* auto_trading's usd_: the USD balance left to hedge
    usd_action,       \* auto_trading's usd_action
    \* ---- TenderBook ----
    tenders,          \* TenderBook.tenders: tender id -> Tender
    history_tenders,  \* TenderBook.history_tenders
    news_call         \* the most recent poll of /tenders and what the venue answered

bookVars == <<orders, next, prev, bid_head, ask_head, bid_map, ask_map,
              transaction_fee, book_call>>
pfVars == <<assets, gross_limit, net_limit, max_usage, gross_position,
            net_position, pf_call>>
apiVars == <<trade_rules, history_orders, active_orders, completed_orders,
             cancelled_orders, accepted_tenders, order_timestamps, clock, api_call>>
fxVars == <<exchange_rates, subaccounts, fx_call>>
hedgeVars == <<usd_, usd_action>>
newsVars == <<tenders, history_tenders, news_call>>
loopVars == <<pc, reconciled, toggles, unwind, unhedged_tenders, commands,
             hedgeVars, newsVars>>
algoVars == <<ladders, sig_call, loopVars>>
vars == <<bookVars, pfVars, apiVars, fxVars, algoVars>>

(***************************************************************************)
(* Bounds of the model.                                                    *)
(***************************************************************************)
MaxOrders == 3
MaxPrice == 2
Prices == 1..MaxPrice
Volumes == {1, 2}
Fees == {0, 1}
Sides == {"bid", "ask"}
Actions == {"buy", "sell"}

Abs(x) == IF x < 0 THEN -x ELSE x
Min(a, b) == IF a <= b THEN a ELSE b

(***************************************************************************)
(* Order                                                                   *)
(***************************************************************************)
\* Order(price, volume, filled_volume, order_type) and __post_init__:
\* initial_volume keeps the requested volume, volume becomes the remainder.
Order(price, volume, filled_volume, order_type) ==
    [price |-> price,
     initial_volume |-> volume,
     filled_volume |-> filled_volume,
     volume |-> volume - filled_volume,
     order_type |-> order_type]

None == [isNone |-> TRUE, num |-> 0, den |-> 1]
Frac(n, d) == [isNone |-> FALSE, num |-> n, den |-> d]

\* A limit: float('inf') or a number.
INF == [inf |-> TRUE, val |-> 0]
Fin(n) == [inf |-> FALSE, val |-> n]

\* The record of a call on the portfolio: its arguments and its result.
PfCall(op, asset_name, volume, asset_quantity, ret) ==
    [op |-> op, asset_name |-> asset_name, volume |-> volume,
     asset_quantity |-> asset_quantity, ret |-> ret]
NoBatch == [t \in {} |-> 0]

\* The record of a call on the gateway: its arguments, what the venue
\* answered (status 0: the venue was not called), the quantity sent to the
\* venue, the number of timestamps the call discarded, the order statuses
\* it polled, and its result.  NoCall is the record before any call.
NoPolls == [id \in {} |-> 0]
NoCall ==
    [op |-> "init", ticker |-> "", quantity |-> 0, action |-> "",
     order_id |-> 0, ids |-> {}, status |-> 0, success |-> FALSE, sent |-> 0,
     pruned |-> 0, polls |-> NoPolls, ret |-> 0]

\* The record of a signal calculation: its arguments and its result.
SigCall(op, args, ret) == [op |-> op, args |-> args, ret |-> ret]

\* The names of the order books and a book with no order on either side.
BookNames == {"SAD", "JOY_C", "JOY_U"}
EmptyLadder == [bid |-> <<>>, ask |-> <<>>]

\* The record of a conversion: its arguments and its result.
FxCall(op, from_currency, to_currency, initial_value, action, ret) ==
    [op |-> op, from_currency |-> from_currency, to_currency |-> to_currency,
     initial_value |-> initial_value, action |-> action, ret |-> ret]

(***************************************************************************)
(* OrderBook.insert_order                                                  *)
(***************************************************************************)
\* The loop conditions of _insert_bid / _insert_ask: keep walking while the
\* current order is strictly better priced than the new one.
BidWalkOn_Ascending(current_price, order_price) == current_price < order_price
BidWalkOn(current_price, order_price) == current_price > order_price
AskWalkOn(current_price, order_price) == current_price < order_price

WalkOn(side, current_price, order_price) ==
    IF side = "bid" THEN BidWalkOn(current_price, order_price)
                    ELSE AskWalkOn(current_price, order_price)

\* while current and current.price > order.price: current = current.next
RECURSIVE FindCurrent(_, _, _)
FindCurrent(side, current, order_price) ==
    IF current # 0 /\ WalkOn(side, orders[current].price, order_price)
    THEN FindCurrent(side, next[current], order_price)
    ELSE current

\* while last.next: last = last.next
RECURSIVE FindLast(_)
FindLast(last) == IF next[last] # 0 THEN FindLast(next[last]) ELSE last

\* bid_map.get(price, []) + [order], or [order] for the first order of a side
MapAppend(map, price, o) ==
    IF price \in DOMAIN map
    THEN [map EXCEPT ![price] = Append(@, o)]
    ELSE (price :> <<o>>) @@ map
MapSet(map, price, o) ==
    IF price \in DOMAIN map
    THEN [map EXCEPT ![price] = <<o>>]
    ELSE (price :> <<o>>) @@ map

HeadOf(side) == IF side = "bid" THEN bid_head ELSE ask_head

\* _insert_bid and _insert_ask differ only in the head, the map and the
\* comparison; o is the new Order object, already appended to orders'.
InsertLinks(side, o, price) ==
    LET head == HeadOf(side)
        current == FindCurrent(side, head, price)
        nx == Append(next, 0)
        pv == Append(prev, 0)
    IN  IF head = 0
        THEN /\ next' = nx
             /\ prev' = pv
             /\ IF side = "bid"
                THEN /\ bid_head' = o
                     /\ bid_map' = MapSet(bid_map, price, o)
                     /\ UNCHANGED <<ask_head, ask_map>>
                ELSE /\ ask_head' = o
                     /\ ask_map' = MapSet(ask_map, price, o)
                     /\ UNCHANGED <<bid_head, bid_map>>
        ELSE /\ IF current # 0
                THEN \* order.next = current; order.prev = current.prev
                     \* if current.prev: current.prev.next = order
                     \* current.prev = order   (the head is not moved)
                     /\ next' = [i \in 1..o |->
                                   IF i = o THEN current
                                   ELSE IF i = prev[current] THEN o
                                   ELSE nx[i]]
                     /\ prev' = [i \in 1..o |->
                                   IF i = o THEN prev[current]
                                   ELSE IF i = current THEN o
                                   ELSE pv[i]]
                ELSE \* append after the last order of the side
                     LET last == FindLast(head)
                     IN  /\ next' = [nx EXCEPT ![last] = o]
                         /\ prev' = [pv EXCEPT ![o] = last]
             /\ IF side = "bid"
                THEN /\ bid_map' = MapAppend(bid_map, price, o)
                     /\ UNCHANGED <<bid_head, ask_head, ask_map>>
                ELSE /\ ask_map' = MapAppend(ask_map, price, o)
                     /\ UNCHANGED <<bid_head, ask_head, bid_map>>

insert_order(price, volume, filled_volume, side) ==
    /\ Len(orders) < MaxOrders
    /\ orders' = Append(orders, Order(price, volume, filled_volume, side))
    /\ InsertLinks(side, Len(orders) + 1, price)
    /\ book_call' = [op |-> "insert_order", quantity |-> 0, action |-> "buy",
                     consider_cost |-> FALSE, ret |-> None]
    /\ UNCHANGED transaction_fee

set_transaction_fee(fee) ==
    /\ transaction_fee' = fee
    /\ book_call' = [op |-> "set_transaction_fee", quantity |-> 0,
                     action |-> "buy", consider_cost |-> FALSE, ret |-> None]
    /\ UNCHANGED <<orders, next, prev, bid_head, ask_head, bid_map, ask_map>>

(***************************************************************************)
(* ExtendOrderBook: total volume and VWAP                                  *)
(***************************************************************************)
\* The orders met from a head by following next.
RECURSIVE Traverse(_)
Traverse(current) ==
    IF current = 0 THEN <<>> ELSE <<current>> \o Traverse(next[current])

RECURSIVE SumVolume(_)
SumVolume(current) ==
    IF current = 0 THEN 0 ELSE orders[current].volume + SumVolume(next[current])

get_total_bid_volume == SumVolume(bid_head)
get_total_ask_volume == SumVolume(ask_head)

\* The while loop of calculate_vwap_market_price: the pair
\* <<total_cost, unfilled_quantity>> it ends with.
RECURSIVE VwapLoop(_, _, _)
VwapLoop(current, total_cost, unfilled_quantity) ==
    IF unfilled_quantity > 0 /\ current # 0
    THEN IF orders[current].volume < unfilled_quantity
         THEN VwapLoop(next[current],
                       total_cost + orders[current].price * orders[current].volume,
                       unfilled_quantity - orders[current].volume)
         ELSE VwapLoop(next[current],
                       total_cost + orders[current].price * unfilled_quantity,
                       0)
    ELSE <<total_cost, unfilled_quantity>>

\* The return statement of calculate_vwap_market_price.
\* total_cost / quantity +- fee is kept as (total_cost +- fee * quantity) / quantity.
VwapReturn_Partial(total_cost, unfilled_quantity, quantity, action, consider_cost, fee) ==
    IF unfilled_quantity = quantity
    THEN None
    ELSE Frac(total_cost, quantity - unfilled_quantity)
VwapReturn_FeeSign(total_cost, unfilled_quantity, quantity, action, consider_cost, fee) ==
    IF unfilled_quantity > 0
    THEN None
    ELSE IF consider_cost
         THEN IF action = "buy"
              THEN Frac(total_cost - fee * quantity, quantity)
              ELSE Frac(total_cost + fee * quantity, quantity)
         ELSE Frac(total_cost, quantity)
VwapReturn(total_cost, unfilled_quantity, quantity, action, consider_cost, fee) ==
    IF unfilled_quantity > 0
    THEN None
    ELSE IF consider_cost
         THEN IF action = "buy"
              THEN Frac(total_cost + fee * quantity, quantity)
              ELSE Frac(total_cost - fee * quantity, quantity)
         ELSE Frac(total_cost, quantity)

calculate_vwap_market_price(quantity, action, consider_cost) ==
    LET current == IF action = "buy" THEN ask_head ELSE bid_head
        end == VwapLoop(current, 0, quantity)
    IN  VwapReturn(end[1], end[2], quantity, action, consider_cost, transaction_fee)

\* The side a market order of this action consumes.
ConsumedSide(action) == IF action = "buy" THEN "ask" ELSE "bid"

\* The orders of one side that were inserted (all of them rest: the book of
\* this specification is only inserted into).
Resting(side) == {o \in 1..Len(orders) : orders[o].order_type = side}

RECURSIVE SetVolume(_)
SetVolume(S) ==
    IF S = {} THEN 0
    ELSE LET o == CHOOSE x \in S : TRUE
         IN  orders[o].volume + SetVolume(S \ {o})

TotalDepth(side) == SetVolume(Resting(side))

CallVwap(quantity, action, consider_cost) ==
    /\ book_call' = [op |-> "calculate_vwap_market_price",
                     quantity |-> quantity, action |-> action,
                     consider_cost |-> consider_cost,
                     ret |-> calculate_vwap_market_price(quantity, action, consider_cost)]
    /\ UNCHANGED <<orders, next, prev, bid_head, ask_head, bid_map, ask_map,
                   transaction_fee>>

(***************************************************************************)
(* The order book specification                                            *)
(***************************************************************************)
EmptyMap == [p \in {} |-> <<>>]

\* OrderBook.__init__: an empty book.
BookConstructed ==
    /\ orders = <<>>
    /\ next = <<>>
    /\ prev = <<>>
    /\ bid_head = 0
    /\ ask_head = 0
    /\ bid_map = EmptyMap
    /\ ask_map = EmptyMap
    /\ transaction_fee = 0
    /\ book_call = [op |-> "init", quantity |-> 0, action |-> "buy",
                    consider_cost |-> FALSE, ret |-> None]

\* Portfolio.__init__: no assets, no limits, full usage.
PortfolioConstructed ==
    /\ assets = NoBatch
    /\ gross_limit = INF
    /\ net_limit = INF
    /\ max_usage = 100
    /\ gross_position = 0
    /\ net_position = 0
    /\ pf_call = PfCall("init", "", 0, NoBatch, FALSE)

\* ApiTrading.__init__: no orders, no tenders, an empty timestamp window.
GatewayConstructed ==
    /\ trade_rules = NoBatch
    /\ history_orders = NoPolls
    /\ active_orders = {}
    /\ completed_orders = {}
    /\ cancelled_orders = {}
    /\ accepted_tenders = {}
    /\ order_timestamps = <<>>
    /\ clock = 0
    /\ api_call = NoCall

\* BankAccount.__init__: no exchange rate stored, no subaccount.
BankAccountConstructed ==
    /\ exchange_rates = NoBatch
    /\ subaccounts = NoBatch
    /\ fx_call = FxCall("init", "", "", 0, "", None)

\* ALGOStrategy at import: empty books, no signal calculated.
\* The main thread before auto_trading, the switches as configured, no
\* tender being closed.
ToggleNames ==
    {"pausing", "strategy1_tender", "strategy2_convertion", "strategy3_ETF",
     "strategy4_profit_loss"}
\* A position of the main thread: the stage and the strategy it is in.
At(stage, strategy) == [stage |-> stage, strategy |-> strategy]
Top == At("top", 0)
NoUnwind == [quantity_tobe_filled |-> 0, fail_time |-> 0, action_type |-> ""]
\* The switches are read from the configuration file.
LoopConfigured(configured) ==
    /\ pc = Top
    /\ reconciled = 0
    /\ toggles = configured
    /\ unwind = NoUnwind
    /\ unhedged_tenders = 0
    /\ commands = 0
    /\ usd_ = 0
    /\ usd_action = ""
    /\ tenders = NoBatch
    /\ history_tenders = NoBatch
    /\ news_call = [op |-> "init", ok |-> FALSE, response |-> <<>>]
LoopConstructed == LoopConfigured([name \in ToggleNames |-> name # "pausing"])

StrategyConstructed ==
    /\ ladders = [name \in BookNames |-> EmptyLadder]
    /\ sig_call = SigCall("init", NoBatch, NoBatch)
    /\ LoopConstructed

InitBook ==
    /\ BookConstructed
    /\ PortfolioConstructed
    /\ GatewayConstructed
    /\ BankAccountConstructed
    /\ StrategyConstructed

NextBook ==
    \/ /\ \E price \in Prices, volume \in Volumes, side \in Sides :
             insert_order(price, volume, 0, side)
       /\ UNCHANGED <<pfVars, apiVars, fxVars, algoVars>>
    \/ /\ \E fee \in Fees : set_transaction_fee(fee)
       /\ UNCHANGED <<pfVars, apiVars, fxVars, algoVars>>
    \/ /\ \E action \in Actions, consider_cost \in BOOLEAN :
             \E quantity \in 1..(TotalDepth(ConsumedSide(action)) + 1) :
                CallVwap(quantity, action, consider_cost)
       /\ UNCHANGED <<pfVars, apiVars, fxVars, algoVars>>

SpecBook == InitBook /\ [][NextBook]_vars

(***************************************************************************)
(* Claims about the order book (checked under SpecBook)                    *)
(***************************************************************************)
IsVwapCall == book_call.op = "calculate_vwap_market_price"

\* The prices of the levels of a traversal: runs of equal price collapsed.
RECURSIVE LevelPrices(_)
LevelPrices(seq) ==
    IF Len(seq) = 0 THEN <<>>
    ELSE IF Len(seq) = 1 THEN <<orders[seq[1]].price>>
    ELSE IF orders[seq[1]].price = orders[seq[2]].price
         THEN LevelPrices(Tail(seq))
         ELSE <<orders[seq[1]].price>> \o LevelPrices(Tail(seq))

BidLevels == LevelPrices(Traverse(bid_head))
AskLevels == LevelPrices(Traverse(ask_head))

\* C1: after any sequence of insert_order calls the levels read from
\* bid_head via next are strictly decreasing in price, those read from
\* ask_head strictly increasing, and no price makes two levels of a side.
C1_LevelsSorted ==
    /\ \A i \in 1..Len(BidLevels), j \in 1..Len(BidLevels) :
          i < j => BidLevels[i] > BidLevels[j]
    /\ \A i \in 1..Len(AskLevels), j \in 1..Len(AskLevels) :
          i < j => AskLevels[i] < AskLevels[j]

\* A side read from its head holds three orders in two levels.
C1_Witness ==
    \/ Len(Traverse(bid_head)) = 3 /\ Len(BidLevels) = 2
    \/ Len(Traverse(ask_head)) = 3 /\ Len(AskLevels) = 2

GetTotalVolume(side) ==
    IF side = "bid" THEN get_total_bid_volume ELSE get_total_ask_volume

\* C2: calculate_vwap_market_price returns None whenever the quantity
\* exceeds the volume resting on the side it consumes, be it the volume
\* reachable from the head or the volume of all inserted orders, and also
\* when that side is empty.
C2_InsufficientDepthIsNone ==
    IsVwapCall =>
        LET side == ConsumedSide(book_call.action)
        IN  (\/ book_call.quantity > GetTotalVolume(side)
             \/ book_call.quantity > TotalDepth(side))
            => book_call.ret = None

\* A query for more than a side of two or more reachable orders holds.
C2_Witness ==
    /\ IsVwapCall
    /\ Len(Traverse(HeadOf(ConsumedSide(book_call.action)))) >= 2
    /\ book_call.quantity > TotalDepth(ConsumedSide(book_call.action))
    /\ book_call.ret = None

\* The cost of filling q from the orders S of one side, best price first.
Better(side, p1, p2) == IF side = "bid" THEN p1 >= p2 ELSE p1 <= p2
RECURSIVE BestFirstCost(_, _, _)
BestFirstCost(side, S, q) ==
    IF q = 0 \/ S = {} THEN 0
    ELSE LET o == CHOOSE x \in S :
                     \A y \in S : Better(side, orders[x].price, orders[y].price)
             take == Min(orders[o].volume, q)
         IN  orders[o].price * take + BestFirstCost(side, S \ {o}, q - take)

\* C3: for every book built by inserts and every 0 < q <= total depth of
\* the consumed side, the no-fee VWAP times q is the sum over the resting
\* orders, best price first, of price * min(volume, quantity unfilled).
C3_VwapIsBestFirstCost ==
    (/\ IsVwapCall
     /\ ~book_call.consider_cost
     /\ book_call.quantity <= TotalDepth(ConsumedSide(book_call.action)))
    => /\ ~book_call.ret.isNone
       /\ book_call.ret.num * book_call.quantity =
             book_call.ret.den *
             BestFirstCost(ConsumedSide(book_call.action),
                           Resting(ConsumedSide(book_call.action)),
                           book_call.quantity)

\* The prices of the orders the VWAP loop takes volume from.
RECURSIVE ConsumedPrices(_, _)
ConsumedPrices(current, unfilled_quantity) ==
    IF unfilled_quantity > 0 /\ current # 0
    THEN {orders[current].price} \cup
         ConsumedPrices(next[current],
                        IF orders[current].volume < unfilled_quantity
                        THEN unfilled_quantity - orders[current].volume
                        ELSE 0)
    ELSE {}

CallConsumed ==
    ConsumedPrices(HeadOf(ConsumedSide(book_call.action)), book_call.quantity)
SetMin(S) == CHOOSE x \in S : \A y \in S : x <= y
SetMax(S) == CHOOSE x \in S : \A y \in S : x >= y

\* The fee the call adds to the average: + fee for a buy, - fee for a sell,
\* nothing without consider_cost.
CallFee ==
    IF ~book_call.consider_cost THEN 0
    ELSE IF book_call.action = "buy" THEN transaction_fee
    ELSE -transaction_fee

PlaceIn(seq, o) ==
    IF \E i \in 1..Len(seq) : seq[i] = o
    THEN CHOOSE i \in 1..Len(seq) : seq[i] = o
    ELSE 0

\* C5: of two orders of one side and one price that are both met from the
\* head, the one inserted first comes first (FIFO within a price level).
C5_FifoWithinLevel ==
    \A a \in 1..Len(orders), b \in 1..Len(orders) :
        LET seq == Traverse(HeadOf(orders[a].order_type))
        IN  (/\ a < b
             /\ orders[a].order_type = orders[b].order_type
             /\ orders[a].price = orders[b].price
             /\ PlaceIn(seq, a) # 0
             /\ PlaceIn(seq, b) # 0)
            => PlaceIn(seq, a) < PlaceIn(seq, b)

(***************************************************************************)
(* Portfolio: position limits                                              *)
(*                                                                         *)
(* max_usage is kept in percent, so  x > limit * max_usage  reads          *)
(* x * 100 > limit * max_usage.  A limit is float('inf') or a number.      *)
(* ratio * quantity is computed exactly; int() truncates toward zero.      *)
(***************************************************************************)
MaxPos == 2
Tickers == {"A", "B"}
Positions == (-MaxPos)..MaxPos
Usages == {80, 100}

PortfolioLimits == {[gross |-> Fin(4), net |-> Fin(2)]}
\* The limits and the limit multipliers the venue lists for the two assets.
AssetLimitTables ==
    {[t \in Tickers |-> [gross |-> INF, net |-> INF]],
     [t \in Tickers |-> IF t = "A" THEN [gross |-> Fin(3), net |-> Fin(3)]
                                   ELSE [gross |-> INF, net |-> INF]]}
MultiplierTables ==
    {[t \in Tickers |-> 1],
     [t \in Tickers |-> IF t = "B" THEN 2 ELSE 1]}

\* x > limit * max_usage
ExceedsCap(x, limit) == ~limit.inf /\ x * 100 > limit.val * max_usage

\* Asset(...): a flat position; set_limits gives its limits.
Asset(limits, limit_multiplier) ==
    [volume |-> 0,
     gross_limit |-> limits.gross,
     net_limit |-> limits.net,
     limit_multiplier |-> limit_multiplier]

RECURSIVE SumOver(_, _)
SumOver(f, S) ==
    IF S = {} THEN 0
    ELSE LET t == CHOOSE x \in S : TRUE
         IN  f[t] + SumOver(f, S \ {t})

\* get_gross_position / get_net_position of a table of assets
GrossOf(a) ==
    SumOver([t \in DOMAIN a |-> Abs(a[t].volume * a[t].limit_multiplier)], DOMAIN a)
NetOf(a) ==
    SumOver([t \in DOMAIN a |-> a[t].volume * a[t].limit_multiplier], DOMAIN a)
get_gross_position == GrossOf(assets)
get_net_position == NetOf(assets)

check_portfolio_limits(asset_name, volume) ==
    LET gross == SumOver([t \in DOMAIN assets |->
                            IF t = asset_name
                            THEN Abs(assets[t].volume + volume)
                            ELSE Abs(assets[t].volume)], DOMAIN assets)
        net == SumOver([t \in DOMAIN assets |->
                            IF t = asset_name
                            THEN assets[t].volume + volume
                            ELSE assets[t].volume], DOMAIN assets)
    IN  \/ ExceedsCap(gross, gross_limit)
        \/ ExceedsCap(Abs(net), net_limit)

\* The two per-instrument tests of check_limits.
AssetGrossExceeds(asset_name, volume) ==
    ExceedsCap(Abs(assets[asset_name].volume) + volume,
               assets[asset_name].gross_limit)
AssetNetExceeds(asset_name, volume) ==
    ExceedsCap(Abs(assets[asset_name].volume + volume),
               assets[asset_name].net_limit)

check_limits(asset_name, volume) ==
    \/ AssetGrossExceeds(asset_name, volume)
    \/ AssetNetExceeds(asset_name, volume)
    \/ check_portfolio_limits(asset_name, volume)

\* True if check_limits holds of some delta taken alone; None (falsy) otherwise.
check_bulk_limits(asset_quantity) ==
    \E name \in DOMAIN asset_quantity : check_limits(name, asset_quantity[name])

\* min(a / b, 1) for a >= 0, b > 0
MinWithOne(a, b) == IF a <= b THEN Frac(a, b) ELSE Frac(1, 1)
\* min of two fractions with positive denominators
FracMin(x, y) == IF x.num * y.den <= y.num * x.den THEN x ELSE y

\* The ratio adjust_position computes once the portfolio is known to be
\* within its caps.
AdjustRatio(asset_quantity) ==
    LET total_net_position == SumOver(asset_quantity, DOMAIN asset_quantity)
        net_ratio ==
            IF total_net_position * net_position > 0
            THEN IF net_limit.inf THEN Frac(1, 1)
                 ELSE MinWithOne(net_limit.val * max_usage - 100 * Abs(net_position),
                                 100 * Abs(total_net_position))
            ELSE IF ExceedsCap(Abs(net_position + total_net_position), net_limit)
                 THEN MinWithOne(net_limit.val * max_usage + 100 * Abs(net_position),
                                 100 * Abs(total_net_position))
                 ELSE Frac(1, 1)
        total_gross_position ==
            SumOver([name \in DOMAIN asset_quantity |->
                        IF asset_quantity[name] * assets[name].volume > 0
                        THEN Abs(asset_quantity[name])
                        ELSE -Abs(asset_quantity[name])], DOMAIN asset_quantity)
    IN  IF /\ ~gross_limit.inf
           /\ 100 * total_gross_position > gross_limit.val * max_usage - 100 * gross_position
        THEN FracMin(net_ratio,
                     Frac(gross_limit.val * max_usage - 100 * gross_position,
                          100 * total_gross_position))
        ELSE net_ratio

\* adjust_position; the variant returns 0 early on the gross cap only.
adjust_position_GrossOnly(asset_quantity) ==
    IF ExceedsCap(gross_position, gross_limit)
    THEN Frac(0, 1)
    ELSE AdjustRatio(asset_quantity)
adjust_position(asset_quantity) ==
    IF ExceedsCap(Abs(net_position), net_limit) \/ ExceedsCap(gross_position, gross_limit)
    THEN Frac(0, 1)
    ELSE AdjustRatio(asset_quantity)

\* int(ratio * quantity), ratio >= 0
IntOfProduct(ratio, quantity) ==
    IF quantity >= 0
    THEN (ratio.num * quantity) \div ratio.den
    ELSE -((ratio.num * (-quantity)) \div ratio.den)

compress_position(asset_quantity) ==
    IF ~check_bulk_limits(asset_quantity)
    THEN asset_quantity
    ELSE LET ratio == adjust_position(asset_quantity)
         IN  [name \in DOMAIN asset_quantity |->
                 IntOfProduct(ratio, asset_quantity[name])]

(***************************************************************************)
(* ApiTrading: the order gateway                                           *)
(*                                                                         *)
(* The venue answers every request with a status and, for an order, the    *)
(* quantity it holds for that order and a filled quantity within it.  It   *)
(* numbers the orders it accepts 1, 2, ...                                 *)
(***************************************************************************)
MaxTime == 3
MAX_ORDERS_PER_SECOND == 4
OrderIds == {1, 2}
Quantities == {0, 1, 2}
OrderNums == {0, 1, 2}
Vwaps == {1, 2}
Statuses == {200, 500, 401}
OrderTickers == {"A"}
Holdings == {-1, 0, 1}
MaxTradeSizes == {1, 2}

\* time() moves on.
Tick ==
    /\ clock < MaxTime
    /\ clock' = clock + 1
    /\ UNCHANGED <<trade_rules, history_orders, active_orders, completed_orders,
                   cancelled_orders, accepted_tenders, order_timestamps, api_call>>

\* The loop of can_place_order: the number of timestamps popped from the
\* left; the variant pops none.
PruneCount_None(timestamps, current_time) == 0
RECURSIVE PruneCount(_, _)
PruneCount(timestamps, current_time) ==
    IF timestamps # <<>> /\ current_time - Head(timestamps) > 1
    THEN 1 + PruneCount(Tail(timestamps), current_time)
    ELSE 0

\* The return value of can_place_order; the variant drops the margin of 2.
Admits_NoMargin(remaining, ordernum) ==
    Len(remaining) + ordernum < MAX_ORDERS_PER_SECOND
Admits(remaining, ordernum) ==
    Len(remaining) + ordernum < MAX_ORDERS_PER_SECOND - 2

can_place_order(ordernum) ==
    LET pruned == PruneCount(order_timestamps, clock)
        remaining == SubSeq(order_timestamps, pruned + 1, Len(order_timestamps))
    IN  /\ order_timestamps' = remaining
        /\ api_call' = [NoCall EXCEPT !.op = "can_place_order",
                                      !.quantity = ordernum,
                                      !.pruned = pruned,
                                      !.ret = Admits(remaining, ordernum)]
        /\ UNCHANGED <<trade_rules, history_orders, active_orders,
                       completed_orders, cancelled_orders, accepted_tenders, clock>>

\* Order(...) as place_order builds it from the venue's answer.
\* (initial_volume, filled_volume, volume and vwap; the other attributes
\* are never read by the gateway).
PlacedOrder(volume, filled_volume, vwap) ==
    [initial_volume |-> volume,
     filled_volume |-> filled_volume,
     volume |-> volume - filled_volume,
     vwap |-> vwap]

\* Order.update_filled_volume, then Order.update_vwap
update_filled_volume(order, volume) ==
    [order EXCEPT !.filled_volume = volume,
                  !.volume = order.initial_volume - volume]
update_vwap(order, vwap) == [order EXCEPT !.vwap = vwap]

\* place_order returns -1 before it calls the venue.
PlaceOrderRefused(ticker, quantity, action) ==
    \/ quantity = 0
    \/ ~trade_rules[ticker].is_tradeable
    \/ /\ ~trade_rules[ticker].is_shortable
       /\ action = "sell"
       /\ assets[ticker].volume < 0

\* The quantity place_order puts in the payload: the clip of a sell of an
\* instrument that is not shortable, then the clip to maximum_trade_size.
ShortClip(ticker, quantity, action) ==
    IF /\ ~trade_rules[ticker].is_shortable
       /\ action = "sell"
       /\ assets[ticker].volume + quantity < 0
    THEN assets[ticker].volume
    ELSE quantity
PayloadQuantity(ticker, quantity, action) ==
    LET clipped == ShortClip(ticker, quantity, action)
    IN  IF clipped > trade_rules[ticker].maximum_trade_size
        THEN trade_rules[ticker].maximum_trade_size
        ELSE clipped

\* A place_order that ends in -1: nothing but the call record changes; the
\* variant records a timestamp all the same.
PlaceOrderFailure_Stamped(call) ==
    /\ api_call' = call
    /\ order_timestamps' = Append(order_timestamps, clock)
    /\ UNCHANGED <<history_orders, active_orders, completed_orders>>
PlaceOrderFailure(call) ==
    /\ api_call' = call
    /\ UNCHANGED <<history_orders, active_orders, completed_orders,
                   order_timestamps>>

\* place_order(ticker, type, quantity, action, price); the venue answers
\* with status and, on 200, with the order it booked.
place_order(ticker, quantity, action, status, quantity_filled, vwap) ==
    LET call == [NoCall EXCEPT !.op = "place_order", !.ticker = ticker,
                               !.quantity = quantity, !.action = action]
    IN  /\ IF PlaceOrderRefused(ticker, quantity, action)
           THEN PlaceOrderFailure([call EXCEPT !.ret = -1])
           ELSE LET sent == PayloadQuantity(ticker, quantity, action)
                    order_id == Cardinality(DOMAIN history_orders) + 1
                    order_ == PlacedOrder(sent, quantity_filled, vwap)
                    posted == [call EXCEPT !.status = status, !.sent = sent]
                IN  IF status = 200
                    THEN /\ order_id \in OrderIds
                         /\ quantity_filled \in 0..sent
                         /\ history_orders' =
                               [id \in DOMAIN history_orders \cup {order_id} |->
                                   IF id = order_id THEN order_
                                   ELSE history_orders[id]]
                         /\ IF order_.volume = 0
                            THEN /\ completed_orders' = completed_orders \cup {order_id}
                                 /\ UNCHANGED active_orders
                            ELSE /\ active_orders' = active_orders \cup {order_id}
                                 /\ UNCHANGED completed_orders
                         /\ order_timestamps' = Append(order_timestamps, clock)
                         /\ api_call' = [posted EXCEPT !.ret = order_id]
                    ELSE PlaceOrderFailure([posted EXCEPT !.ret = -1])
        /\ UNCHANGED <<trade_rules, cancelled_orders, accepted_tenders, clock>>

\* cancel_order(order_id): the venue answers with a status and, on 200,
\* with success or not.  The venue cancels only orders it has booked.
\* The variant leaves the id in active_orders.
cancel_order_StaysActive(order_id, status, success) ==
    /\ (status = 200 /\ success) => order_id \in DOMAIN history_orders
    /\ IF status = 200 /\ success
       THEN cancelled_orders' = cancelled_orders \cup {order_id}
       ELSE UNCHANGED cancelled_orders
    /\ UNCHANGED active_orders
    /\ api_call' = [NoCall EXCEPT !.op = "cancel_order", !.order_id = order_id,
                                  !.status = status, !.success = success]
    /\ UNCHANGED <<trade_rules, history_orders, completed_orders,
                   accepted_tenders, order_timestamps, clock>>
cancel_order(order_id, status, success) ==
    /\ (status = 200 /\ success) => order_id \in DOMAIN history_orders
    /\ IF status = 200 /\ success
       THEN /\ cancelled_orders' = cancelled_orders \cup {order_id}
            /\ active_orders' = active_orders \ {order_id}
       ELSE UNCHANGED <<cancelled_orders, active_orders>>
    /\ api_call' = [NoCall EXCEPT !.op = "cancel_order", !.order_id = order_id,
                                  !.status = status, !.success = success]
    /\ UNCHANGED <<trade_rules, history_orders, completed_orders,
                   accepted_tenders, order_timestamps, clock>>

\* bulk_cancel_orders(...): on 200 the venue lists the ids it cancelled.
bulk_cancel_orders(status, cancelled_order_ids) ==
    /\ IF status = 200
       THEN /\ cancelled_orders' = cancelled_orders \cup cancelled_order_ids
            /\ active_orders' = active_orders \ cancelled_order_ids
            /\ api_call' = [NoCall EXCEPT !.op = "bulk_cancel_orders",
                                          !.status = status,
                                          !.ids = cancelled_order_ids,
                                          !.ret = 1]
       ELSE /\ UNCHANGED <<cancelled_orders, active_orders>>
            /\ api_call' = [NoCall EXCEPT !.op = "bulk_cancel_orders",
                                          !.status = status,
                                          !.ret = -1]
    /\ UNCHANGED <<trade_rules, history_orders, completed_orders,
                   accepted_tenders, order_timestamps, clock>>

\* ClientDataFetcher.check_order_status: {} when the poll fails, else the
\* venue's record of the order.
FailedPoll == [ok |-> FALSE, quantity |-> 0, quantity_filled |-> 0, vwap |-> 0]
PollAnswers(order_id) ==
    {FailedPoll} \cup
    {[ok |-> TRUE, quantity |-> history_orders[order_id].initial_volume,
      quantity_filled |-> f, vwap |-> v] :
        f \in 0..history_orders[order_id].initial_volume, v \in Vwaps}
PollTables ==
    {polls \in [active_orders -> UNION {PollAnswers(id) : id \in active_orders}] :
        \A id \in active_orders : polls[id] \in PollAnswers(id)}

\* The branches of update_order_status for one polled order; the variants
\* take any answered poll for complete, any changed fill for partial.
PolledComplete_Any(resp) == resp.ok
PolledComplete(resp) == resp.ok /\ resp.quantity <= resp.quantity_filled
PolledPartial_Changed(order, resp) ==
    resp.ok /\ ~PolledComplete(resp) /\ resp.quantity_filled # order.filled_volume
PolledPartial(order, resp) ==
    resp.ok /\ ~PolledComplete(resp) /\ resp.quantity_filled > order.filled_volume

\* update_order_status: every order active at the start is polled once.
update_order_status(polls) ==
    LET done == {id \in active_orders : PolledComplete(polls[id])}
    IN  /\ history_orders' =
              [id \in DOMAIN history_orders |->
                  IF /\ id \in active_orders
                     /\ \/ PolledComplete(polls[id])
                        \/ PolledPartial(history_orders[id], polls[id])
                  THEN update_vwap(update_filled_volume(history_orders[id],
                                                       polls[id].quantity_filled),
                                   polls[id].vwap)
                  ELSE history_orders[id]]
        /\ completed_orders' = completed_orders \cup done
        /\ active_orders' = active_orders \ done

(***************************************************************************)
(* ApiTrading: the refresh from the venue                                  *)
(***************************************************************************)
\* update_position: every asset takes the position the venue reports.
update_position(position) ==
    assets' = [t \in DOMAIN assets |-> [assets[t] EXCEPT !.volume = position[t]]]

\* The gross and net the venue reports for the stock limit: its positions
\* weighted by each security's limit multiplier (1 / limit units).
VenueGross(position) ==
    SumOver([t \in DOMAIN assets |-> Abs(position[t] * assets[t].limit_multiplier)],
            DOMAIN assets)
VenueNet(position) ==
    SumOver([t \in DOMAIN assets |-> position[t] * assets[t].limit_multiplier],
            DOMAIN assets)

\* update_limits_quota: gross_position and net_position take the venue's figures.
update_limits_quota(position) ==
    /\ gross_position' = VenueGross(position)
    /\ net_position' = VenueNet(position)

\* update_all_information: update_order_status, then update_position, then
\* update_limits_quota, the last two polled from the venue while it holds
\* the given positions.
update_all_information(polls, position) ==
    /\ update_order_status(polls)
    /\ update_position(position)
    /\ update_limits_quota(position)
    /\ pf_call' = PfCall("update_all_information", "", 0, NoBatch, FALSE)
    /\ api_call' = [NoCall EXCEPT !.op = "update_all_information",
                                  !.polls = polls]
    /\ UNCHANGED <<gross_limit, net_limit, max_usage, trade_rules,
                   cancelled_orders, accepted_tenders, order_timestamps, clock>>

CallCheckLimits(asset_name, volume) ==
    /\ pf_call' = PfCall("check_limits", asset_name, volume, NoBatch,
                         check_limits(asset_name, volume))
    /\ UNCHANGED <<assets, gross_limit, net_limit, max_usage, gross_position,
                   net_position>>

CallCheckPortfolioLimits(asset_name, volume) ==
    /\ pf_call' = PfCall("check_portfolio_limits", asset_name, volume, NoBatch,
                         check_portfolio_limits(asset_name, volume))
    /\ UNCHANGED <<assets, gross_limit, net_limit, max_usage, gross_position,
                   net_position>>

CallCompressPosition(asset_quantity) ==
    /\ pf_call' = PfCall("compress_position", "", 0, asset_quantity,
                         compress_position(asset_quantity))
    /\ UNCHANGED <<assets, gross_limit, net_limit, max_usage, gross_position,
                   net_position>>

\* The batches of proposed deltas: a delta for some or all of the tickers.
Batches == UNION {[S -> Positions] : S \in (SUBSET Tickers) \ {{}}}

\* The portfolio after ApiTrading.initialize_portfolio: the assets and the
\* limits the venue lists, flat positions, no usage polled yet.
InitPortfolio ==
    /\ \E limits \in AssetLimitTables, multiplier \in MultiplierTables :
          assets = [t \in Tickers |-> Asset(limits[t], multiplier[t])]
    /\ \E limits \in PortfolioLimits :
          /\ gross_limit = limits.gross
          /\ net_limit = limits.net
    /\ max_usage \in Usages
    /\ gross_position = 0
    /\ net_position = 0
    /\ pf_call = PfCall("initialize_portfolio", "", 0, NoBatch, FALSE)
    /\ BookConstructed
    /\ GatewayConstructed
    /\ BankAccountConstructed
    /\ StrategyConstructed

NextPortfolio ==
    \/ /\ \E polls \in PollTables, position \in [Tickers -> Positions] :
             update_all_information(polls, position)
       /\ UNCHANGED <<bookVars, fxVars, algoVars>>
    \/ /\ \E asset_name \in Tickers, volume \in Positions :
             CallCheckLimits(asset_name, volume)
       /\ UNCHANGED <<bookVars, apiVars, fxVars, algoVars>>
    \/ /\ \E asset_name \in Tickers, volume \in Positions :
             CallCheckPortfolioLimits(asset_name, volume)
       /\ UNCHANGED <<bookVars, apiVars, fxVars, algoVars>>
    \/ /\ \E asset_quantity \in Batches : CallCompressPosition(asset_quantity)
       /\ UNCHANGED <<bookVars, apiVars, fxVars, algoVars>>

SpecPortfolio == InitPortfolio /\ [][NextPortfolio]_vars

(***************************************************************************)
(* ApiTrading: tenders                                                     *)
(***************************************************************************)
TenderIds == {1}
TenderStatuses == {200, 500}

\* The pre-check of accept_tender_check_limits; the variant never objects.
TenderBreaches_Never(asset_name, volume) == FALSE
TenderBreaches(asset_name, volume) == check_limits(asset_name, volume)

\* accept_tender(tender_id, price): the venue answers with a status and, on
\* 200, with success or not.
accept_tender(call, tender_id, status, success) ==
    IF status = 200 /\ success
    THEN /\ accepted_tenders' = accepted_tenders \cup {tender_id}
         /\ api_call' = [call EXCEPT !.status = status, !.success = success,
                                     !.ret = 1]
    ELSE /\ UNCHANGED accepted_tenders
         /\ api_call' = [call EXCEPT !.status = status, !.success = success,
                                     !.ret = -1]

\* accept_tender_check_limits(tender_id, asset_name, volume, price)
accept_tender_check_limits(tender_id, asset_name, volume, status, success) ==
    LET call == [NoCall EXCEPT !.op = "accept_tender_check_limits",
                               !.order_id = tender_id, !.ticker = asset_name,
                               !.quantity = volume]
    IN  /\ IF TenderBreaches(asset_name, volume)
           THEN /\ UNCHANGED accepted_tenders
                /\ api_call' = [call EXCEPT !.ret = -1]
           ELSE accept_tender(call, tender_id, status, success)
        /\ UNCHANGED <<trade_rules, history_orders, active_orders,
                       completed_orders, cancelled_orders, order_timestamps, clock>>

\* Tenders are offered while the ledger is refreshed from the venue.
NextTender ==
    \/ /\ \E polls \in PollTables, position \in [Tickers -> Positions] :
             update_all_information(polls, position)
       /\ UNCHANGED <<bookVars, fxVars, algoVars>>
    \/ /\ \E tender_id \in TenderIds, asset_name \in Tickers, volume \in Positions,
             status \in TenderStatuses, success \in BOOLEAN :
             accept_tender_check_limits(tender_id, asset_name, volume, status, success)
       /\ UNCHANGED <<bookVars, pfVars, fxVars, algoVars>>

SpecTender == InitPortfolio /\ [][NextTender]_vars

(***************************************************************************)
(* The gateway specifications                                              *)
(*                                                                         *)
(* SpecPlace: admission and submission.  Time passes, the instrument's     *)
(* trading attributes are any the venue can list, and the venue fills an   *)
(* order it accepts at once.                                               *)
(* SpecOrders: the life of an order.  The instrument is tradeable and      *)
(* shortable, the venue fills any part of an order when it accepts it and  *)
(* between polls, and cancels what it is asked to or not.                  *)
(***************************************************************************)
TradeRules ==
    [is_tradeable : BOOLEAN, is_shortable : BOOLEAN,
     maximum_trade_size : MaxTradeSizes]
OpenRules == [is_tradeable |-> TRUE, is_shortable |-> TRUE, maximum_trade_size |-> 2]

\* The gateway after ApiTrading.initialize_portfolio: one instrument, flat,
\* no limits on it, no order yet.
GatewayFlat ==
    /\ assets = [t \in OrderTickers |-> Asset([gross |-> INF, net |-> INF], 1)]
    /\ gross_limit = INF
    /\ net_limit = INF
    /\ max_usage = 100
    /\ gross_position = 0
    /\ net_position = 0
    /\ pf_call = PfCall("initialize_portfolio", "", 0, NoBatch, FALSE)
    /\ history_orders = NoPolls
    /\ active_orders = {}
    /\ completed_orders = {}
    /\ cancelled_orders = {}
    /\ accepted_tenders = {}
    /\ order_timestamps = <<>>
    /\ clock = 0
    /\ api_call = NoCall
GatewayInitialized ==
    /\ GatewayFlat
    /\ BookConstructed
    /\ BankAccountConstructed
    /\ StrategyConstructed

InitPlace ==
    /\ GatewayInitialized
    /\ trade_rules \in [OrderTickers -> TradeRules]

NextPlace ==
    \/ /\ Tick
       /\ UNCHANGED <<bookVars, pfVars, fxVars, algoVars>>
    \/ /\ \E ordernum \in OrderNums : can_place_order(ordernum)
       /\ UNCHANGED <<bookVars, pfVars, fxVars, algoVars>>
    \/ /\ \E ticker \in OrderTickers, quantity \in Quantities, action \in Actions,
             status \in Statuses :
             place_order(ticker, quantity, action, status,
                         PayloadQuantity(ticker, quantity, action), 1)
       /\ UNCHANGED <<bookVars, pfVars, fxVars, algoVars>>
    \/ /\ \E polls \in PollTables, position \in [OrderTickers -> Holdings] :
             update_all_information(polls, position)
       /\ UNCHANGED <<bookVars, fxVars, algoVars>>

SpecPlace == InitPlace /\ [][NextPlace]_vars

InitOrders ==
    /\ GatewayInitialized
    /\ trade_rules = [t \in OrderTickers |-> OpenRules]

NextOrders ==
    \/ /\ \E ticker \in OrderTickers, quantity \in Quantities, action \in Actions,
             status \in Statuses, quantity_filled \in Quantities, vwap \in Vwaps :
             place_order(ticker, quantity, action, status, quantity_filled, vwap)
       /\ UNCHANGED <<bookVars, pfVars, fxVars, algoVars>>
    \/ /\ \E order_id \in OrderIds, status \in Statuses, success \in BOOLEAN :
             cancel_order(order_id, status, success)
       /\ UNCHANGED <<bookVars, pfVars, fxVars, algoVars>>
    \/ /\ \E status \in Statuses, ids \in SUBSET DOMAIN history_orders :
             bulk_cancel_orders(status, ids)
       /\ UNCHANGED <<bookVars, pfVars, fxVars, algoVars>>
    \/ /\ \E polls \in PollTables, position \in [OrderTickers -> Holdings] :
             update_all_information(polls, position)
       /\ UNCHANGED <<bookVars, fxVars, algoVars>>

SpecOrders == InitOrders /\ [][NextOrders]_vars

(***************************************************************************)
(* Claims about the position limits (checked under SpecPortfolio)          *)
(***************************************************************************)
\* The assets once a batch of deltas is applied to the current positions.
AfterDeltas(asset_quantity) ==
    [t \in DOMAIN assets |->
        IF t \in DOMAIN asset_quantity
        THEN [assets[t] EXCEPT !.volume = @ + asset_quantity[t]]
        ELSE assets[t]]

\* Gross and net exposure of a table of assets within the portfolio's caps.
WithinCaps(a) ==
    /\ ~ExceedsCap(GrossOf(a), gross_limit)
    /\ ~ExceedsCap(Abs(NetOf(a)), net_limit)

UnitMultipliers == \A t \in DOMAIN assets : assets[t].limit_multiplier = 1

IsCompressCall == pf_call.op = "compress_position"

\* C6: the deltas compress_position returns, applied to the current
\* positions, give a gross exposure <= gross_limit * max_usage and an
\* absolute net exposure <= net_limit * max_usage.  (Stated here for the
\* most favourable case: every limit multiplier 1 and a portfolio that is
\* within both caps before the batch.)
C6_CompressedWithinCaps ==
    (/\ IsCompressCall
     /\ UnitMultipliers
     /\ WithinCaps(assets))
    => WithinCaps(AfterDeltas(pf_call.ret))

\* A batch that leaves every instrument and the portfolio within limits:
\* the portfolio's exposure after the batch is within both caps, and each
\* instrument passes the per-instrument test of its own delta
\* (|volume + delta| against the net cap, |volume| + |delta| against the
\* gross cap).
BatchCompliant(asset_quantity) ==
    /\ WithinCaps(AfterDeltas(asset_quantity))
    /\ \A t \in DOMAIN asset_quantity :
          /\ ~ExceedsCap(Abs(assets[t].volume + asset_quantity[t]),
                         assets[t].net_limit)
          /\ ~ExceedsCap(Abs(assets[t].volume) + Abs(asset_quantity[t]),
                         assets[t].gross_limit)

\* The portfolio is already beyond one of its caps.
OverCap ==
    \/ ExceedsCap(Abs(net_position), net_limit)
    \/ ExceedsCap(gross_position, gross_limit)

\* C7: a batch whose application leaves every instrument and the portfolio
\* within its gross and net limits is returned unchanged, delta for delta.
\* (Stated for a portfolio that is not already beyond a cap.)
C7_CompliantBatchUnchanged ==
    (/\ IsCompressCall
     /\ ~OverCap
     /\ BatchCompliant(pf_call.asset_quantity))
    => pf_call.ret = pf_call.asset_quantity

AllZero(asset_quantity) ==
    \A name \in DOMAIN asset_quantity : asset_quantity[name] = 0

\* Some delta of the batch, taken alone, fails check_limits.
SomeDeltaBreaches(asset_quantity) ==
    \E name \in DOMAIN asset_quantity : check_limits(name, asset_quantity[name])

\* C8 as stated: whenever |net_position| or gross_position is beyond its
\* cap, compress_position returns zero for every delta of every batch.
C8_OverCapAllZero ==
    (IsCompressCall /\ OverCap) => AllZero(pf_call.ret)

\* C8 amended: whenever |net_position| or gross_position is beyond its cap,
\* compress_position returns zero for every delta of a batch one of whose
\* deltas fails check_limits on its own, and returns any other batch
\* unchanged.
C8_OverCapBreachingBatchAllZero ==
    (IsCompressCall /\ OverCap)
    => IF SomeDeltaBreaches(pf_call.asset_quantity)
       THEN AllZero(pf_call.ret)
       ELSE pf_call.ret = pf_call.asset_quantity

\* Over the cap, a batch with a breaching delta and a non-zero delta came
\* back as zeros.
C8_Witness ==
    /\ IsCompressCall
    /\ OverCap
    /\ SomeDeltaBreaches(pf_call.asset_quantity)
    /\ ~AllZero(pf_call.asset_quantity)
    /\ AllZero(pf_call.ret)

\* C9: leaving the portfolio-scope check aside, check_limits(ticker, delta)
\* reports a breach exactly when |volume + delta| > net_limit * max_usage or
\* |volume| + |delta| > gross_limit * max_usage.
C9_InstrumentCheck ==
    (/\ pf_call.op = "check_limits"
     /\ ~check_portfolio_limits(pf_call.asset_name, pf_call.volume))
    => (pf_call.ret <=>
          \/ ExceedsCap(Abs(assets[pf_call.asset_name].volume + pf_call.volume),
                        assets[pf_call.asset_name].net_limit)
          \/ ExceedsCap(Abs(assets[pf_call.asset_name].volume) + Abs(pf_call.volume),
                        assets[pf_call.asset_name].gross_limit))

\* C10: check_portfolio_limits(asset, delta) reports a breach exactly when
\* get_gross_position or |get_net_position|, evaluated once the delta is
\* applied (volumes weighted by limit_multiplier), is beyond its cap.
C10_PortfolioCheckWeighted ==
    pf_call.op = "check_portfolio_limits"
    => (pf_call.ret <=>
          ~WithinCaps(AfterDeltas((pf_call.asset_name :> pf_call.volume))))

(***************************************************************************)
(* Claims about admission and submission (checked under SpecPlace)         *)
(***************************************************************************)
\* The step is a call of the named operation of the gateway.
IsGatewayStep(op) == api_call'.op = op /\ clock' = clock

\* C11: can_place_order(n) discards exactly the timestamps older than one
\* second and returns TRUE iff (remaining timestamps) + n is less than
\* MAX_ORDERS_PER_SECOND - 2.
C11_AdmissionRule ==
    [][IsGatewayStep("can_place_order") =>
          /\ order_timestamps' =
                SelectSeq(order_timestamps, LAMBDA t : clock - t <= 1)
          /\ api_call'.ret =
                (Len(order_timestamps') + api_call'.quantity
                    < MAX_ORDERS_PER_SECOND - 2)]_vars

\* MAX_ORDERS_PER_SECOND - 2 timestamps inside the last second:
\* can_place_order(1) returned FALSE.
C11_Witness ==
    /\ api_call.op = "can_place_order"
    /\ api_call.quantity = 1
    /\ Len(order_timestamps) = MAX_ORDERS_PER_SECOND - 2
    /\ api_call.ret = FALSE

\* C12: when more than one second has passed since the newest recorded
\* timestamp, can_place_order(1) returns TRUE.
C12_LimiterReopens ==
    [][(/\ IsGatewayStep("can_place_order")
        /\ api_call'.quantity = 1
        /\ order_timestamps # <<>>
        /\ clock - order_timestamps[Len(order_timestamps)] > 1)
       => api_call'.ret = TRUE]_vars

\* A full window aged out: the call discarded MAX_ORDERS_PER_SECOND - 2
\* timestamps and can_place_order(1) returned TRUE.
C12_Witness ==
    /\ api_call.op = "can_place_order"
    /\ api_call.quantity = 1
    /\ api_call.pruned = MAX_ORDERS_PER_SECOND - 2
    /\ api_call.ret = TRUE

\* C13: for an instrument that is not shortable, a sell that reaches the
\* venue carries a quantity no greater than the current long position.
C13_NoShortSale ==
    (/\ api_call.op = "place_order"
     /\ api_call.action = "sell"
     /\ api_call.status # 0
     /\ ~trade_rules[api_call.ticker].is_shortable)
    => /\ assets[api_call.ticker].volume >= 0
       /\ api_call.sent <= assets[api_call.ticker].volume

\* The ways place_order fails: zero quantity, an instrument that is not
\* tradeable, a venue status other than 200.
PlaceOrderFailed(call) ==
    \/ call.quantity = 0
    \/ ~trade_rules[call.ticker].is_tradeable
    \/ call.status \notin {0, 200}

C15_TenderGated ==
    [][(/\ IsGatewayStep("accept_tender_check_limits")
        /\ check_limits(api_call'.ticker, api_call'.quantity))
       => /\ api_call'.ret = -1
          /\ api_call'.status = 0
          /\ UNCHANGED accepted_tenders]_vars

\* A breaching tender was turned down without a call, after another tender
\* had been accepted.
C15_Witness ==
    /\ api_call.op = "accept_tender_check_limits"
    /\ check_limits(api_call.ticker, api_call.quantity)
    /\ api_call.status = 0
    /\ api_call.ret = -1
    /\ accepted_tenders # {}

(***************************************************************************)
(* Claims about the life of an order (checked under SpecOrders)            *)
(***************************************************************************)
\* C16: for each id active when the reconciliation starts: polled filled
\* >= requested moves the id to completed_orders with filled volume and
\* VWAP from the poll; polled filled above the recorded one and below the
\* requested changes filled volume and VWAP only; anything else, a failed
\* poll included, changes nothing.
C16_Reconcile ==
    [][IsGatewayStep("update_all_information") =>
        \A id \in active_orders :
            LET resp == api_call'.polls[id]
                old == history_orders[id]
                new == history_orders'[id]
            IN  IF resp.ok /\ resp.quantity_filled >= old.initial_volume
                THEN /\ id \notin active_orders'
                     /\ id \in completed_orders'
                     /\ new.filled_volume = resp.quantity_filled
                     /\ new.vwap = resp.vwap
                ELSE IF resp.ok /\ resp.quantity_filled > old.filled_volume
                THEN /\ id \in active_orders'
                     /\ id \notin completed_orders'
                     /\ new.filled_volume = resp.quantity_filled
                     /\ new.vwap = resp.vwap
                     /\ new.initial_volume = old.initial_volume
                ELSE /\ id \in active_orders'
                     /\ id \notin completed_orders'
                     /\ new = old]_vars

\* One reconciliation completed an order and raised the fill of another.
C16_Witness ==
    /\ api_call.op = "update_all_information"
    /\ \E id \in DOMAIN api_call.polls :
          /\ PolledComplete(api_call.polls[id])
          /\ id \in completed_orders
    /\ \E id \in DOMAIN api_call.polls :
          /\ api_call.polls[id].ok
          /\ api_call.polls[id].quantity_filled > 0
          /\ api_call.polls[id].quantity_filled < api_call.polls[id].quantity
          /\ history_orders[id].filled_volume = api_call.polls[id].quantity_filled
          /\ id \in active_orders

C18_TerminalStates ==
    [][\A id \in completed_orders \cup cancelled_orders :
          /\ id \notin active_orders'
          /\ (id \in completed_orders => id \in completed_orders')
          /\ (id \in cancelled_orders => id \in cancelled_orders')
          /\ history_orders'[id].filled_volume = history_orders[id].filled_volume]_vars

\* A reconciliation ran while one order was cancelled part-filled and
\* another was completed.
C18_Witness ==
    /\ api_call.op = "update_all_information"
    /\ \E id \in cancelled_orders :
          history_orders[id].filled_volume < history_orders[id].initial_volume
    /\ completed_orders # {}

(***************************************************************************)
(* BankAccount: exchange rates and conversion                              *)
(*                                                                         *)
(* set_foreign_exchange_rate replaces the whole entry of the base          *)
(* currency, so a base currency holds one quote with its bid and ask.      *)
(* Rates and amounts are exact fractions with positive denominators.       *)
(***************************************************************************)
MaxAmount == 2
Currencies == {"CAD", "USD"}
Amounts == (-MaxAmount)..MaxAmount
Rates == {Frac(1, 2), Frac(1, 1), Frac(2, 1), Frac(3, 1)}

FracLess(x, y) == x.num * y.den < y.num * x.den
FracEq(x, y) == x.num * y.den = y.num * x.den
\* 1 / x and x / y for x, y > 0 (or x of any sign in x / y)
Inverse(x) == Frac(x.den, x.num)
Quotient(x, y) == Frac(x.num * y.den, x.den * y.num)

set_foreign_exchange_rate(base_currency, quote_currency, bid_rate, ask_rate) ==
    /\ exchange_rates' =
          [c \in DOMAIN exchange_rates \cup {base_currency} |->
              IF c = base_currency
              THEN [quote |-> quote_currency, bid |-> bid_rate, ask |-> ask_rate]
              ELSE exchange_rates[c]]
    /\ fx_call' = FxCall("set_foreign_exchange_rate", base_currency,
                         quote_currency, 0, "", None)
    /\ UNCHANGED subaccounts

\* exchange_rates[base][quote] exists
Stored(base_currency, quote_currency) ==
    /\ base_currency \in DOMAIN exchange_rates
    /\ exchange_rates[base_currency].quote = quote_currency

\* get_exchange_rate; None stands for the ValueError it raises.
get_exchange_rate(base_currency, quote_currency, action) ==
    IF base_currency = quote_currency
    THEN Frac(1, 1)
    ELSE IF Stored(base_currency, quote_currency)
    THEN IF action = "sell"
         THEN exchange_rates[base_currency].bid
         ELSE exchange_rates[base_currency].ask
    ELSE IF Stored(quote_currency, base_currency)
    THEN IF action = "sell"
         THEN Inverse(exchange_rates[quote_currency].ask)
         ELSE Inverse(exchange_rates[quote_currency].bid)
    ELSE None

\* The action currency_value_conversion asks the rate for; the variant
\* swaps the two.
ConversionAction_Swapped(initial_value) ==
    IF initial_value.num > 0 THEN "sell" ELSE "buy"
ConversionAction(initial_value) ==
    IF initial_value.num > 0 THEN "buy" ELSE "sell"

\* currency_value_conversion: initial_value / rate
currency_value_conversion(from_currency, to_currency, initial_value) ==
    LET rate == get_exchange_rate(from_currency, to_currency,
                                  ConversionAction(initial_value))
    IN  IF rate.isNone THEN None ELSE Quotient(initial_value, rate)

CallConversion(from_currency, to_currency, initial_value) ==
    /\ fx_call' = FxCall("currency_value_conversion", from_currency, to_currency,
                         initial_value, ConversionAction(Frac(initial_value, 1)),
                         currency_value_conversion(from_currency, to_currency,
                                                   Frac(initial_value, 1)))
    /\ UNCHANGED <<exchange_rates, subaccounts>>

\* from -> to, and the result back to -> from; the variant stops half way.
RoundTrip_OneWay(from_currency, to_currency, initial_value) ==
    currency_value_conversion(from_currency, to_currency, initial_value)
RoundTrip(from_currency, to_currency, initial_value) ==
    LET there == currency_value_conversion(from_currency, to_currency, initial_value)
    IN  IF there.isNone THEN None
        ELSE currency_value_conversion(to_currency, from_currency, there)

CallRoundTrip(from_currency, to_currency, initial_value) ==
    /\ fx_call' = FxCall("round_trip", from_currency, to_currency,
                         initial_value, ConversionAction(Frac(initial_value, 1)),
                         RoundTrip(from_currency, to_currency,
                                   Frac(initial_value, 1)))
    /\ UNCHANGED <<exchange_rates, subaccounts>>

InitFx ==
    /\ BankAccountConstructed
    /\ StrategyConstructed
    /\ BookConstructed
    /\ PortfolioConstructed
    /\ GatewayConstructed

NextFx ==
    \/ /\ \E base_currency \in Currencies, quote_currency \in Currencies,
             bid_rate \in Rates, ask_rate \in Rates :
             /\ base_currency # quote_currency
             /\ set_foreign_exchange_rate(base_currency, quote_currency,
                                          bid_rate, ask_rate)
       /\ UNCHANGED <<bookVars, pfVars, apiVars, algoVars>>
    \/ /\ \E from_currency \in Currencies, to_currency \in Currencies,
             initial_value \in Amounts :
             CallConversion(from_currency, to_currency, initial_value)
       /\ UNCHANGED <<bookVars, pfVars, apiVars, algoVars>>
    \/ /\ \E from_currency \in Currencies, to_currency \in Currencies,
             initial_value \in Amounts :
             CallRoundTrip(from_currency, to_currency, initial_value)
       /\ UNCHANGED <<bookVars, pfVars, apiVars, algoVars>>

SpecFx == InitFx /\ [][NextFx]_vars

(***************************************************************************)
(* Claims about the conversion (checked under SpecFx)                      *)
(***************************************************************************)
\* The conversion found a rate and the amount is not zero.
IsConversion ==
    /\ fx_call.op = "currency_value_conversion"
    /\ fx_call.initial_value # 0
    /\ ~fx_call.ret.isNone

\* The call's amount divided by the rate get_exchange_rate gives for action.
PricedWith(action) ==
    FracEq(fx_call.ret,
           Quotient(Frac(fx_call.initial_value, 1),
                    get_exchange_rate(fx_call.from_currency,
                                      fx_call.to_currency, action)))

\* C19 as stated: a positive amount is priced with the 'sell' rate, a
\* negative amount with the 'buy' rate.
C19_SellRateForPositive ==
    IsConversion =>
        PricedWith(IF fx_call.initial_value > 0 THEN "sell" ELSE "buy")

\* C19, amended: a positive amount is priced with the 'buy' rate, a
\* negative amount with the 'sell' rate, and the result is amount / rate.
C19_BuyRateForPositive ==
    IsConversion =>
        /\ fx_call.action = (IF fx_call.initial_value > 0 THEN "buy" ELSE "sell")
        /\ PricedWith(fx_call.action)

\* A positive amount was converted over a pair whose bid is below its ask.
C19_Witness ==
    /\ IsConversion
    /\ fx_call.initial_value > 0
    /\ FracLess(get_exchange_rate(fx_call.from_currency, fx_call.to_currency, "sell"),
                get_exchange_rate(fx_call.from_currency, fx_call.to_currency, "buy"))

\* The two currencies of the call are linked by one stored pair, in one
\* direction only, whose bid is below its ask.
OnePairWithSpread(a, b) ==
    /\ a # b
    /\ \/ Stored(a, b) /\ ~Stored(b, a)
          /\ FracLess(exchange_rates[a].bid, exchange_rates[a].ask)
       \/ Stored(b, a) /\ ~Stored(a, b)
          /\ FracLess(exchange_rates[b].bid, exchange_rates[b].ask)

IsRoundTrip ==
    /\ fx_call.op = "round_trip"
    /\ fx_call.initial_value # 0
    /\ OnePairWithSpread(fx_call.from_currency, fx_call.to_currency)

FracAbs(x) == Frac(Abs(x.num), x.den)

\* C20 as stated: the round trip of a non-zero amount, positive or
\* negative, is strictly smaller in magnitude than the amount.
C20_RoundTripShrinks ==
    IsRoundTrip =>
        FracLess(FracAbs(fx_call.ret), Frac(Abs(fx_call.initial_value), 1))

\* C20, amended: the round trip is strictly below the amount as a signed
\* value and keeps its sign: a positive amount comes back smaller, a
\* negative amount comes back larger in magnitude.
C20_RoundTripLoses ==
    IsRoundTrip =>
        /\ FracLess(fx_call.ret, Frac(fx_call.initial_value, 1))
        /\ (fx_call.initial_value > 0) = (fx_call.ret.num > 0)
        /\ (fx_call.initial_value > 0 =>
               FracLess(FracAbs(fx_call.ret), Frac(Abs(fx_call.initial_value), 1)))
        /\ (fx_call.initial_value < 0 =>
               FracLess(Frac(Abs(fx_call.initial_value), 1), FracAbs(fx_call.ret)))

\* A negative amount went round over a pair with a spread.
C20_Witness ==
    /\ IsRoundTrip
    /\ fx_call.initial_value < 0
    /\ ~fx_call.ret.isNone

(***************************************************************************)
(* BankAccount: subaccounts and the value of the account                   *)
(***************************************************************************)
Balances == (-MaxAmount)..MaxAmount

FracSum(x, y) == Frac(x.num * y.den + y.num * x.den, x.den * y.den)
FracNeg(x) == Frac(-x.num, x.den)
Product(x, y) == Frac(x.num * y.num, x.den * y.den)

\* BankAccountOperationApi.add_subaccount
add_subaccount(cash, currency) ==
    /\ subaccounts' = [c \in DOMAIN subaccounts \cup {currency} |->
                          IF c = currency THEN cash ELSE subaccounts[c]]
    /\ fx_call' = FxCall("add_subaccount", "", currency, cash, "", None)
    /\ UNCHANGED exchange_rates

\* BankAccountOperationApi.update_balance: the balance the venue reports.
update_balance(account_name, amount) ==
    /\ account_name \in DOMAIN subaccounts
    /\ subaccounts' = [subaccounts EXCEPT ![account_name] = amount]
    /\ fx_call' = FxCall("update_balance", "", account_name, amount, "", None)
    /\ UNCHANGED exchange_rates

\* currency_value_conversion_targetamount: target_value * rate, the amount
\* of from_currency that buys target_value of to_currency.
currency_value_conversion_targetamount(from_currency, to_currency, target_value) ==
    LET rate == get_exchange_rate(from_currency, to_currency, "buy")
    IN  IF rate.isNone THEN None ELSE Product(target_value, rate)

\* What one subaccount adds to total_value in get_value.
AccountValue(account_name, primary_currency) ==
    LET cash == subaccounts[account_name]
    IN  IF account_name = primary_currency
        THEN Frac(cash, 1)
        ELSE IF cash > 0
        THEN currency_value_conversion(account_name, primary_currency,
                                       Frac(cash, 1))
        ELSE LET paid == currency_value_conversion(primary_currency, account_name,
                                                   Frac(Abs(cash), 1))
             IN  IF paid.isNone THEN None ELSE FracNeg(paid)

\* The sum of f over the accounts of S; None once a term is None (the
\* ValueError of a missing rate leaves the loop).
RECURSIVE SumValues(_, _)
SumValues(f, S) ==
    IF S = {} THEN Frac(0, 1)
    ELSE LET a == CHOOSE x \in S : TRUE
             rest == SumValues(f, S \ {a})
         IN  IF f[a].isNone \/ rest.isNone THEN None ELSE FracSum(f[a], rest)

\* get_value(primary_currency)
get_value(primary_currency) ==
    SumValues([a \in DOMAIN subaccounts |-> AccountValue(a, primary_currency)],
              DOMAIN subaccounts)

CallGetValue(primary_currency) ==
    /\ fx_call' = FxCall("get_value", "", primary_currency, 0, "",
                         get_value(primary_currency))
    /\ UNCHANGED <<exchange_rates, subaccounts>>

InitValue == InitFx

NextValue ==
    \/ /\ \E base_currency \in Currencies, quote_currency \in Currencies,
             bid_rate \in Rates, ask_rate \in Rates :
             /\ base_currency # quote_currency
             /\ set_foreign_exchange_rate(base_currency, quote_currency,
                                          bid_rate, ask_rate)
       /\ UNCHANGED <<bookVars, pfVars, apiVars, algoVars>>
    \/ /\ \E cash \in Balances, currency \in Currencies :
             add_subaccount(cash, currency)
       /\ UNCHANGED <<bookVars, pfVars, apiVars, algoVars>>
    \/ /\ \E account_name \in Currencies, amount \in Balances :
             update_balance(account_name, amount)
       /\ UNCHANGED <<bookVars, pfVars, apiVars, algoVars>>
    \/ /\ \E primary_currency \in Currencies : CallGetValue(primary_currency)
       /\ UNCHANGED <<bookVars, pfVars, apiVars, algoVars>>

SpecValue == InitValue /\ [][NextValue]_vars

(***************************************************************************)
(* Claims about the value of the account (checked under SpecValue)         *)
(***************************************************************************)
\* The liquidation value of one balance in the target currency: what
\* selling a long balance yields, minus what buying back a short one costs.
LiquidationValue(account_name, target) ==
    LET cash == subaccounts[account_name]
    IN  IF account_name = target
        THEN Frac(cash, 1)
        ELSE IF cash > 0
        THEN currency_value_conversion(account_name, target, Frac(cash, 1))
        ELSE LET cost == currency_value_conversion_targetamount(
                             target, account_name, Frac(Abs(cash), 1))
             IN  IF cost.isNone THEN None ELSE FracNeg(cost)

\* C21: get_value(target) is the target balance plus the liquidation value
\* of every other balance: the proceeds of selling a long balance, minus
\* the cost of buying a short one at the buy-side rate.
C21_LiquidationValue ==
    fx_call.op = "get_value" =>
        LET expected ==
                SumValues([a \in DOMAIN subaccounts |->
                              LiquidationValue(a, fx_call.to_currency)],
                          DOMAIN subaccounts)
        IN  \/ expected.isNone /\ fx_call.ret.isNone
            \/ /\ ~expected.isNone
               /\ ~fx_call.ret.isNone
               /\ FracEq(fx_call.ret, expected)

(***************************************************************************)
(* ExtendOrderBook.limit_order_assistant                                   *)
(***************************************************************************)
Tolerances == {Frac(0, 1), Frac(1, 2), Frac(1, 1)}

\* abs(average_price - market_price) <= slippage_tolerance, the slippage
\* being float("inf") when the average is None (or zero).
WithinTolerance(average_price, market_price, slippage_tolerance) ==
    /\ ~average_price.isNone
    /\ average_price.num # 0
    /\ Abs(average_price.num - market_price * average_price.den)
           * slippage_tolerance.den
       <= slippage_tolerance.num * average_price.den

\* The loop that accumulates volume from the head: the price of the last
\* order it reaches.
RECURSIVE LimitPriceLoop(_, _, _, _)
LimitPriceLoop(current, cumulative_volume, limit_price, trade_volume) ==
    IF current # 0 /\ cumulative_volume < trade_volume
    THEN LimitPriceLoop(next[current],
                        cumulative_volume + orders[current].volume,
                        orders[current].price, trade_volume)
    ELSE limit_price

\* limit_order_assistant: <<order type, price>>, price 0 for None.
\* An empty side raises AttributeError on head.price.
limit_order_assistant(trade_volume, side, slippage_tolerance) ==
    LET head == IF side = "buy" THEN ask_head ELSE bid_head
    IN  IF head = 0
        THEN <<"AttributeError", 0>>
        ELSE LET market_price == orders[head].price
                 average_price ==
                     calculate_vwap_market_price(trade_volume, side, FALSE)
             IN  IF WithinTolerance(average_price, market_price,
                                    slippage_tolerance)
                 THEN <<"market", 0>>
                 ELSE <<"limit", LimitPriceLoop(head, 0, 0, trade_volume)>>

CallAssistant(trade_volume, side, slippage_tolerance) ==
    /\ book_call' = [op |-> "limit_order_assistant",
                     quantity |-> trade_volume, action |-> side,
                     consider_cost |-> FALSE,
                     ret |-> slippage_tolerance,
                     advice |-> limit_order_assistant(trade_volume, side,
                                                      slippage_tolerance)]
    /\ UNCHANGED <<orders, next, prev, bid_head, ask_head, bid_map, ask_map,
                   transaction_fee>>

NextAssist ==
    \/ /\ \E price \in Prices, volume \in Volumes, side \in Sides :
             insert_order(price, volume, 0, side)
       /\ UNCHANGED <<pfVars, apiVars, fxVars, algoVars>>
    \/ /\ \E side \in Actions, slippage_tolerance \in Tolerances :
             \E trade_volume \in 1..(TotalDepth(ConsumedSide(side)) + 1) :
                CallAssistant(trade_volume, side, slippage_tolerance)
       /\ UNCHANGED <<pfVars, apiVars, fxVars, algoVars>>

SpecAssist == InitBook /\ [][NextAssist]_vars

(***************************************************************************)
(* Claims about the order advice (checked under SpecAssist)                *)
(***************************************************************************)
IsAssistCall == book_call.op = "limit_order_assistant"

\* The best quote of a side: the best price among its resting orders.
BestQuote(side) ==
    LET S == Resting(side)
    IN  orders[CHOOSE x \in S :
                  \A y \in S : Better(side, orders[x].price, orders[y].price)].price

\* The price of the last order reached when volume is accumulated over
\* the orders S, best price first, until q is covered or S is used up.
RECURSIVE BestFirstLastPrice(_, _, _)
BestFirstLastPrice(side, S, q) ==
    LET o == CHOOSE x \in S :
                 \A y \in S : Better(side, orders[x].price, orders[y].price)
    IN  IF orders[o].volume >= q \/ S \ {o} = {}
        THEN orders[o].price
        ELSE BestFirstLastPrice(side, S \ {o}, q - orders[o].volume)

\* C22: on a side that holds orders, the advice is 'market' when the
\* no-fee VWAP of the volume is within the tolerance of the side's best
\* quote, and otherwise 'limit' at the price of the last order reached
\* when accumulating volume from the best price (the deepest price when
\* the depth is insufficient).
C22_Advice ==
    (IsAssistCall /\ Resting(ConsumedSide(book_call.action)) # {}) =>
        LET side == ConsumedSide(book_call.action)
            q == book_call.quantity
            tol == book_call.ret
            enough == q <= TotalDepth(side)
            cost == BestFirstCost(side, Resting(side), q)
            near == /\ enough
                    /\ Abs(cost - BestQuote(side) * q) * tol.den <= tol.num * q
        IN  IF near
            THEN book_call.advice = <<"market", 0>>
            ELSE book_call.advice =
                     <<"limit", BestFirstLastPrice(side, Resting(side), q)>>

\* The same advice read against the ladder as the book links it: the
\* orders met from the head.
C22_AdviceOnLinkedLadder ==
    (IsAssistCall /\ HeadOf(ConsumedSide(book_call.action)) # 0) =>
        LET side == ConsumedSide(book_call.action)
            S == {Traverse(HeadOf(side))[i] :
                     i \in 1..Len(Traverse(HeadOf(side)))}
            q == book_call.quantity
            tol == book_call.ret
            enough == q <= SetVolume(S)
            cost == BestFirstCost(side, S, q)
            best == orders[CHOOSE x \in S :
                       \A y \in S : Better(side, orders[x].price, orders[y].price)].price
            near == /\ enough
                    /\ Abs(cost - best * q) * tol.den <= tol.num * q
        IN  IF near
            THEN book_call.advice = <<"market", 0>>
            ELSE book_call.advice = <<"limit", BestFirstLastPrice(side, S, q)>>

(***************************************************************************)
(* ALGOStrategy: the books the strategies read                             *)
(*                                                                         *)
(* update_market_data clears every book and inserts the venue's open       *)
(* orders again; a strategy reads a book from its heads.  A book is kept   *)
(* here as its two ladders: the orders met from bid_head and from          *)
(* ask_head, each a price and a remaining volume.                          *)
(***************************************************************************)
LadderLengths == {0, 1, 2}
Levels == [price : Prices, volume : Volumes]

\* The ladders a side can show: bids fall in price from the head, asks rise.
LadderSides(side) ==
    {levels \in UNION {[1..n -> Levels] : n \in LadderLengths} :
        \A i \in 1..Len(levels), j \in 1..Len(levels) :
            i < j => Better(side, levels[i].price, levels[j].price)}

\* clear_orders and ticker_bid_ask for every book: each takes the ladder
\* the venue shows for it.
update_market_data(fed) ==
    /\ ladders' = fed
    /\ sig_call' = SigCall("update_market_data", NoBatch, NoBatch)

\* The while loop of calculate_vwap_market_price over a ladder, from its
\* i-th order on.
RECURSIVE LadderVwapLoop(_, _, _, _)
LadderVwapLoop(levels, i, total_cost, unfilled_quantity) ==
    IF unfilled_quantity > 0 /\ i <= Len(levels)
    THEN IF levels[i].volume < unfilled_quantity
         THEN LadderVwapLoop(levels, i + 1,
                             total_cost + levels[i].price * levels[i].volume,
                             unfilled_quantity - levels[i].volume)
         ELSE LadderVwapLoop(levels, i + 1,
                             total_cost + levels[i].price * unfilled_quantity,
                             0)
    ELSE <<total_cost, unfilled_quantity>>

\* order_book.calculate_vwap_market_price(quantity, action, consider_cost)
\* on the book of that name; every book carries the configured fee.
BookVwap(name, quantity, action, consider_cost) ==
    LET levels == IF action = "buy" THEN ladders[name].ask ELSE ladders[name].bid
        end == LadderVwapLoop(levels, 1, 0, quantity)
    IN  VwapReturn(end[1], end[2], quantity, action, consider_cost, transaction_fee)

(***************************************************************************)
(* ETFArbitrageStrategy.tender_signal2                                     *)
(***************************************************************************)
SignalQuantities == {1, 2}
Thresholds == {0, 1}

\* x - y and x > n for floats x, y and a number n
FracDiff(x, y) == Frac(x.num * y.den - y.num * x.den, x.den * y.den)
FracAbove(x, n) == x.num > n * x.den

\* What a signal calculation returns: a (signal, profit) tuple, a bare
\* number, or the exception that leaves it.
SignalTuple(signal, profit) ==
    [shape |-> "tuple", signal |-> signal, profit |-> profit]
SignalNumber(signal) ==
    [shape |-> "number", signal |-> signal, profit |-> Frac(0, 1)]
SignalRaises(exception) ==
    [shape |-> exception, signal |-> 0, profit |-> Frac(0, 1)]

\* tender_signal2: the profit it compares with the threshold.  A ladder
\* that cannot fill the volume gives vwap None, and number - None raises.
TenderProfit(tender_action, tender_price, vwap) ==
    IF tender_action = "buy"
    THEN FracDiff(Frac(tender_price, 1), vwap)
    ELSE FracDiff(vwap, Frac(tender_price, 1))

tender_signal2(tender_action, tender_price, tender_volume, name, buy_threshold, sell_threshold) ==
    LET myaction == IF tender_action = "sell" THEN "buy" ELSE "sell"
        vwap == BookVwap(name, tender_volume, myaction, TRUE)
        profit == TenderProfit(tender_action, tender_price, vwap)
        threshold == IF tender_action = "buy" THEN buy_threshold
                     ELSE sell_threshold
    IN  IF vwap.isNone THEN SignalRaises("TypeError")
        ELSE IF FracAbove(profit, threshold) THEN SignalTuple(1, profit)
        ELSE SignalTuple(0, Frac(0, 1))

\* The variant takes the orders it priced off the book.
CallTenderSignal_Consuming(tender_action, tender_price, tender_volume, name, buy_threshold, sell_threshold) ==
    /\ sig_call' =
          SigCall("tender_signal2",
                  [tender_action |-> tender_action, tender_price |-> tender_price,
                   tender_volume |-> tender_volume, name |-> name,
                   buy_threshold |-> buy_threshold,
                   sell_threshold |-> sell_threshold],
                  tender_signal2(tender_action, tender_price, tender_volume,
                                 name, buy_threshold, sell_threshold))
    /\ ladders' = [ladders EXCEPT ![name] = EmptyLadder]
    /\ UNCHANGED loopVars
CallTenderSignal(tender_action, tender_price, tender_volume, name, buy_threshold, sell_threshold) ==
    /\ sig_call' =
          SigCall("tender_signal2",
                  [tender_action |-> tender_action, tender_price |-> tender_price,
                   tender_volume |-> tender_volume, name |-> name,
                   buy_threshold |-> buy_threshold,
                   sell_threshold |-> sell_threshold],
                  tender_signal2(tender_action, tender_price, tender_volume,
                                 name, buy_threshold, sell_threshold))
    /\ UNCHANGED <<ladders, loopVars>>

\* The books as one refresh left them: those named hold any ladders, the
\* others are empty.
BooksFed(names) ==
    \E fed \in [names -> [bid : LadderSides("bid"), ask : LadderSides("ask")]] :
        ladders = [name \in BookNames |->
                      IF name \in names THEN fed[name] ELSE EmptyLadder]

InitTenderSignal ==
    /\ BookConstructed
    /\ PortfolioConstructed
    /\ GatewayConstructed
    /\ BankAccountConstructed
    /\ BooksFed({"JOY_C"})
    /\ sig_call = SigCall("init", NoBatch, NoBatch)
    /\ LoopConstructed

NextTenderSignal ==
    \/ /\ sig_call.op = "init"
       /\ \E fee \in Fees : set_transaction_fee(fee)
       /\ UNCHANGED <<pfVars, apiVars, fxVars, algoVars>>
    \/ /\ \E tender_action \in Actions, tender_price \in Prices,
             tender_volume \in SignalQuantities,
             buy_threshold \in Thresholds, sell_threshold \in Thresholds :
             CallTenderSignal(tender_action, tender_price, tender_volume,
                              "JOY_C", buy_threshold, sell_threshold)
       /\ UNCHANGED <<bookVars, pfVars, apiVars, fxVars>>

SpecTenderSignal == InitTenderSignal /\ [][NextTenderSignal]_vars

(***************************************************************************)
(* Claims about the tender signal (checked under SpecTenderSignal)         *)
(***************************************************************************)
IsTenderSignal == sig_call.op = "tender_signal2"

\* The edge of a tender over its volume: for a sell-tender the tender
\* price less the VWAP of buying the volume back, for a buy-tender the
\* VWAP of selling the volume less the tender price.
TenderEdge(args) ==
    LET unwound == BookVwap(args.name, args.tender_volume,
                           IF args.tender_action = "sell" THEN "buy" ELSE "sell",
                           TRUE)
        perUnit == IF args.tender_action = "sell"
                   THEN FracDiff(Frac(args.tender_price, 1), unwound)
                   ELSE FracDiff(unwound, Frac(args.tender_price, 1))
    IN  Frac(perUnit.num * args.tender_volume, perUnit.den)

\* C23: when the book can fill the tender volume, tender_signal2 returns
\* signal 1 exactly when the edge over the tender volume (tender price -
\* unwind VWAP for a sell-tender, its mirror for a buy-tender) exceeds
\* the threshold of that side.
C23_TenderEdge ==
    (IsTenderSignal /\ sig_call.ret.shape = "tuple") =>
        LET args == sig_call.args
            threshold == IF args.tender_action = "sell"
                         THEN args.sell_threshold ELSE args.buy_threshold
        IN  sig_call.ret.signal = 1 <=> FracAbove(TenderEdge(args), threshold)

(***************************************************************************)
(* ETFArbitrageStrategy.generate_convert_signal                            *)
(***************************************************************************)
rebate_fee == 0
PriceShifts == {0, 1}

\* book.currency, as get_exchange_rate reads it (upper case)
BookCurrency(name) == IF name = "JOY_U" THEN "USD" ELSE "CAD"

\* The loop of limit_order_assistant over a ladder, from its i-th order on.
RECURSIVE LadderLimitPrice(_, _, _, _, _)
LadderLimitPrice(levels, i, cumulative_volume, limit_price, trade_volume) ==
    IF i <= Len(levels) /\ cumulative_volume < trade_volume
    THEN LadderLimitPrice(levels, i + 1, cumulative_volume + levels[i].volume,
                          levels[i].price, trade_volume)
    ELSE limit_price

\* order_book.limit_order_assistant(trade_volume, side, slippage_tolerance)
\* on the book of that name: <<order type, price>>.
BookAdvice(name, trade_volume, side, slippage_tolerance) ==
    LET levels == IF side = "buy" THEN ladders[name].ask ELSE ladders[name].bid
    IN  IF Len(levels) = 0
        THEN <<"AttributeError", 0>>
        ELSE IF WithinTolerance(BookVwap(name, trade_volume, side, FALSE),
                                levels[1].price, slippage_tolerance)
        THEN <<"market", 0>>
        ELSE <<"limit", LadderLimitPrice(levels, 1, 0, 0, trade_volume)>>

\* order_book.calculate_total_profit(trade_volume, order_type, action, price);
\* None stands for the TypeError of None * trade_volume.
BookTotalProfit(name, trade_volume, order_type, action, price) ==
    IF order_type = "market"
    THEN LET vwap == BookVwap(name, trade_volume, action, TRUE)
         IN  IF vwap.isNone THEN None
             ELSE Frac(vwap.num * trade_volume, vwap.den)
    ELSE IF action = "buy"
    THEN Frac((price + transaction_fee - rebate_fee) * trade_volume, 1)
    ELSE Frac((price - transaction_fee + rebate_fee) * trade_volume, 1)

\* The value in CAD of one leg of calculate_converter_profit: the advice
\* for the book, the total it gives, converted for the side traded.
\* [raises |-> the exception, value |-> the CAD value]
LegValue(name, quantity, weight, action, slippage_tolerance) ==
    LET result == BookAdvice(name, quantity, action, slippage_tolerance)
        number == BookTotalProfit(name, quantity * weight, result[1], action,
                                  result[2])
        number_cad ==
            IF action = "buy"
            THEN currency_value_conversion_targetamount("CAD", BookCurrency(name),
                                                        number)
            ELSE currency_value_conversion(BookCurrency(name), "CAD", number)
    IN  IF result[1] = "AttributeError"
        THEN [raises |-> "AttributeError", value |-> None]
        ELSE IF number.isNone
        THEN [raises |-> "TypeError", value |-> None]
        ELSE IF number_cad.isNone
        THEN [raises |-> "ValueError", value |-> None]
        ELSE [raises |-> "", value |-> number_cad]

\* calculate_converter_profit with etf_price None and one stock of the
\* given weight: the profit in CAD, or the exception raised on the way.
calculate_converter_profit(stock, weight, etf, quantity, convert_fee, action, slippage_tolerance) ==
    LET stock_leg == LegValue(stock, quantity, weight, action, slippage_tolerance)
        etf_action == IF action = "sell" THEN "buy" ELSE "sell"
        etf_leg == LegValue(etf, quantity, 1, etf_action, slippage_tolerance)
        convert_fee_cad ==
            currency_value_conversion_targetamount("CAD", "CAD",
                                                   Frac(convert_fee, 1))
        fees == Frac(quantity * convert_fee_cad.num, convert_fee_cad.den)
    IN  IF stock_leg.raises # "" THEN stock_leg
        ELSE IF etf_leg.raises # "" THEN etf_leg
        ELSE [raises |-> "",
              value |-> IF action = "buy"
                        THEN FracDiff(FracDiff(etf_leg.value, stock_leg.value), fees)
                        ELSE FracDiff(FracDiff(stock_leg.value, etf_leg.value), fees)]

\* profit > 0 and profit / quantity +- price_shift > threshold
ConvertCondition(profit, quantity, shift, threshold) ==
    /\ profit.num > 0
    /\ FracAbove(FracSum(Frac(profit.num, profit.den * quantity), Frac(shift, 1)),
                 threshold)

\* Which of the two signals generate_convert_signal returns.
ReturnsCreate(signal, create_threshold, redeem_threshold) ==
    create_threshold > redeem_threshold

generate_convert_signal(stock, weight, etf, quantity, convert_fee, price_shift, create_threshold, redeem_threshold, slippage_tolerance) ==
    LET create_ETF_profit ==
            calculate_converter_profit(stock, weight, etf, quantity, convert_fee,
                                       "buy", slippage_tolerance)
        redeem_ETF_profit ==
            calculate_converter_profit(stock, weight, etf, quantity, convert_fee,
                                       "sell", slippage_tolerance)
        signal == IF ConvertCondition(create_ETF_profit.value, quantity,
                                      price_shift, create_threshold)
                  THEN 1 ELSE 0
        signal2 == IF ConvertCondition(redeem_ETF_profit.value, quantity,
                                       -price_shift, redeem_threshold)
                   THEN -1 ELSE 0
    IN  IF create_ETF_profit.raises # ""
        THEN SignalRaises(create_ETF_profit.raises)
        ELSE IF redeem_ETF_profit.raises # ""
        THEN SignalRaises(redeem_ETF_profit.raises)
        ELSE IF ReturnsCreate(signal, create_threshold, redeem_threshold)
        THEN SignalTuple(signal, create_ETF_profit.value)
        ELSE SignalTuple(signal2, redeem_ETF_profit.value)

CallConvertSignal(stock, etf, quantity, price_shift, create_threshold, redeem_threshold, slippage_tolerance) ==
    /\ sig_call' =
          SigCall("generate_convert_signal",
                  [stock |-> stock, etf |-> etf, quantity |-> quantity,
                   price_shift |-> price_shift,
                   create_threshold |-> create_threshold,
                   redeem_threshold |-> redeem_threshold,
                   slippage_tolerance |-> slippage_tolerance],
                  generate_convert_signal(stock, 1, etf, quantity, 0, price_shift,
                                          create_threshold, redeem_threshold,
                                          slippage_tolerance))
    /\ UNCHANGED <<ladders, loopVars>>


\* The books as one refresh left them when every side shows at most its
\* best order.
BooksQuoted(names) ==
    /\ BooksFed(names)
    /\ \A name \in names : Len(ladders[name].bid) <= 1 /\ Len(ladders[name].ask) <= 1

InitConvert ==
    /\ BookConstructed
    /\ PortfolioConstructed
    /\ GatewayConstructed
    /\ BankAccountConstructed
    /\ BooksQuoted({"SAD", "JOY_C"})
    /\ sig_call = SigCall("init", NoBatch, NoBatch)
    /\ LoopConstructed

NextConvert ==
    \/ /\ sig_call.op = "init"
       /\ \E fee \in Fees : set_transaction_fee(fee)
       /\ UNCHANGED <<pfVars, apiVars, fxVars, algoVars>>
    \/ /\ \E quantity \in SignalQuantities, price_shift \in PriceShifts,
             create_threshold \in Thresholds, redeem_threshold \in Thresholds :
             CallConvertSignal("SAD", "JOY_C", quantity, price_shift,
                               create_threshold, redeem_threshold, Frac(0, 1))
       /\ UNCHANGED <<bookVars, pfVars, apiVars, fxVars>>

SpecConvert == InitConvert /\ [][NextConvert]_vars

IsConvertSignal == sig_call.op = "generate_convert_signal"

\* The profit-per-unit conditions of a generate_convert_signal call.
CreateHolds(args) ==
    LET profit == calculate_converter_profit(args.stock, 1, args.etf,
                      args.quantity, 0, "buy", args.slippage_tolerance)
    IN  /\ profit.raises = ""
        /\ profit.value.num > 0
        /\ FracAbove(FracSum(Frac(profit.value.num,
                                  profit.value.den * args.quantity),
                             Frac(args.price_shift, 1)),
                     args.create_threshold)

RedeemHolds(args) ==
    LET profit == calculate_converter_profit(args.stock, 1, args.etf,
                      args.quantity, 0, "sell", args.slippage_tolerance)
    IN  /\ profit.raises = ""
        /\ FracAbove(FracDiff(Frac(profit.value.num,
                                   profit.value.den * args.quantity),
                              Frac(args.price_shift, 1)),
                     args.redeem_threshold)

\* C24: for every pair of thresholds generate_convert_signal returns 1 with
\* the create profit when the create profit is positive and its per-unit
\* value plus price_shift exceeds create_threshold, and returns -1 when the
\* redeem per-unit profit minus price_shift exceeds redeem_threshold while
\* the create condition does not hold.
C24_ConvertSignal ==
    (IsConvertSignal /\ sig_call.ret.shape = "tuple") =>
        /\ CreateHolds(sig_call.args) => sig_call.ret.signal = 1
        /\ (RedeemHolds(sig_call.args) /\ ~CreateHolds(sig_call.args)) =>
               sig_call.ret.signal = -1


(***************************************************************************)
(* ETFArbitrageStrategy.generate_etf_signal                                *)
(***************************************************************************)
\* calculate_total_profit(quantity, "market", action, None) of a book, in
\* CAD: [raises |-> the exception, value |-> the CAD value]
MarketValueCad(name, quantity, action) ==
    LET number == BookTotalProfit(name, quantity, "market", action, 0)
        number_cad == currency_value_conversion(BookCurrency(name), "CAD", number)
    IN  IF number.isNone
        THEN [raises |-> "TypeError", value |-> None]
        ELSE IF number_cad.isNone
        THEN [raises |-> "ValueError", value |-> None]
        ELSE [raises |-> "", value |-> number_cad]

\* The first exception among the four totals, in the order the code
\* computes and converts them; "" when none raises.
FirstRaised(totals) ==
    IF \A i \in 1..Len(totals) : totals[i].raises = ""
    THEN ""
    ELSE totals[CHOOSE i \in 1..Len(totals) :
                    /\ totals[i].raises # ""
                    /\ \A j \in 1..(i - 1) : totals[j].raises = ""].raises

generate_etf_signal(joyc, joyu, quantity, profit_threshold_buyc, profit_threshold_sellc) ==
    LET cost1 == MarketValueCad(joyc, quantity, "buy")
        profit1 == MarketValueCad(joyu, quantity, "sell")
        cost2 == MarketValueCad(joyu, quantity, "buy")
        profit2 == MarketValueCad(joyc, quantity, "sell")
        return1 == FracDiff(profit1.value, cost1.value)
        return2 == FracDiff(profit2.value, cost2.value)
        signal1 == IF FracAbove(return1, profit_threshold_buyc) THEN 1 ELSE 0
        signal2 == IF FracAbove(return2, profit_threshold_sellc) THEN -1 ELSE 0
        raised == FirstRaised(<<cost1, profit1, cost2, profit2>>)
    IN  IF raised # "" THEN SignalRaises(raised)
        ELSE IF signal2 = -1 /\ signal1 = 1 THEN SignalNumber(0)
        ELSE IF signal1 # 0 THEN SignalTuple(1, return1)
        ELSE IF signal2 # 0 THEN SignalTuple(-1, return2)
        ELSE SignalTuple(0, Frac(0, 1))

CallEtfSignal(joyc, joyu, quantity, profit_threshold_buyc, profit_threshold_sellc) ==
    /\ sig_call' =
          SigCall("generate_etf_signal",
                  [joyc |-> joyc, joyu |-> joyu, quantity |-> quantity,
                   profit_threshold_buyc |-> profit_threshold_buyc,
                   profit_threshold_sellc |-> profit_threshold_sellc],
                  generate_etf_signal(joyc, joyu, quantity, profit_threshold_buyc,
                                      profit_threshold_sellc))
    /\ UNCHANGED <<ladders, loopVars>>

\* The last statement of update_data: the CAD/USD rate is set from the best
\* quotes of the USD book; the signals are calculated anew after it.
RefreshRate(bid_rate, ask_rate) ==
    /\ set_foreign_exchange_rate("CAD", "USD", bid_rate, ask_rate)
    /\ sig_call' = SigCall("update_data", NoBatch, NoBatch)
    /\ UNCHANGED <<ladders, loopVars>>

InitEtf ==
    /\ BookConstructed
    /\ PortfolioConstructed
    /\ GatewayConstructed
    /\ BankAccountConstructed
    /\ BooksQuoted({"JOY_C", "JOY_U"})
    /\ sig_call = SigCall("init", NoBatch, NoBatch)
    /\ LoopConstructed

NextEtf ==
    \/ /\ \E bid_rate \in Rates, ask_rate \in Rates :
             /\ ~FracLess(ask_rate, bid_rate)
             /\ RefreshRate(bid_rate, ask_rate)
       /\ UNCHANGED <<bookVars, pfVars, apiVars>>
    \/ /\ \E quantity \in SignalQuantities,
             profit_threshold_buyc \in Thresholds,
             profit_threshold_sellc \in Thresholds :
             CallEtfSignal("JOY_C", "JOY_U", quantity, profit_threshold_buyc,
                           profit_threshold_sellc)
       /\ UNCHANGED <<bookVars, pfVars, apiVars, fxVars>>

SpecEtf == InitEtf /\ [][NextEtf]_vars

IsEtfSignal == sig_call.op = "generate_etf_signal"

\* return1 > profit_threshold_buyc, return2 > profit_threshold_sellc for the
\* arguments of a call that raised nothing
BuyCProfitable(args) ==
    FracAbove(FracDiff(MarketValueCad(args.joyu, args.quantity, "sell").value,
                       MarketValueCad(args.joyc, args.quantity, "buy").value),
              args.profit_threshold_buyc)
SellCProfitable(args) ==
    FracAbove(FracDiff(MarketValueCad(args.joyc, args.quantity, "sell").value,
                       MarketValueCad(args.joyu, args.quantity, "buy").value),
              args.profit_threshold_sellc)

\* C25: whenever generate_etf_signal returns, what it returns is a
\* (direction, profit) tuple: direction 0 when both directions exceed their
\* thresholds, (1, return1) when only buying JOY_C and selling JOY_U does,
\* (-1, return2) when only the mirror does, and (0, 0) when neither does.
C25_EtfSignalShape ==
    (IsEtfSignal /\ sig_call.ret.shape \in {"tuple", "number"}) =>
        LET buyc == BuyCProfitable(sig_call.args)
            sellc == SellCProfitable(sig_call.args)
        IN  /\ sig_call.ret.shape = "tuple"
            /\ sig_call.ret.signal =
                  IF buyc /\ ~sellc THEN 1 ELSE IF sellc /\ ~buyc THEN -1 ELSE 0
            /\ (~buyc /\ ~sellc) => sig_call.ret.profit = Frac(0, 1)

\* The part of C25 that holds: every tuple returned carries the direction
\* that alone is profitable, and (0, 0) when none is.
C25_TupleDirection ==
    (IsEtfSignal /\ sig_call.ret.shape = "tuple") =>
        LET buyc == BuyCProfitable(sig_call.args)
            sellc == SellCProfitable(sig_call.args)
        IN  /\ ~(buyc /\ sellc)
            /\ sig_call.ret.signal = IF buyc THEN 1 ELSE IF sellc THEN -1 ELSE 0
            /\ (~buyc /\ ~sellc) => sig_call.ret.profit = Frac(0, 1)


(***************************************************************************)
(* The three signal calculators on one snapshot of books and rates         *)
(***************************************************************************)
\* A side showing nothing or one order of volume 1.
ThinSides(side) ==
    {levels \in LadderSides(side) :
        Len(levels) <= 1 /\ \A i \in 1..Len(levels) : levels[i].volume = 1}

BooksThin(names) ==
    \E fed \in [names -> [bid : ThinSides("bid"), ask : ThinSides("ask")]] :
        ladders = [name \in BookNames |->
                      IF name \in names THEN fed[name] ELSE EmptyLadder]

InitSignals ==
    /\ BookConstructed
    /\ PortfolioConstructed
    /\ GatewayConstructed
    /\ BankAccountConstructed
    /\ \E other \in {"SAD", "JOY_U"} : BooksThin({"JOY_C", other})
    /\ sig_call = SigCall("init", NoBatch, NoBatch)
    /\ LoopConstructed

NextSignals ==
    \/ /\ \E rate \in {Frac(1, 1), Frac(2, 1)} : RefreshRate(rate, rate)
       /\ UNCHANGED <<bookVars, pfVars, apiVars>>
    \/ /\ \E tender_action \in Actions, tender_price \in Prices,
             tender_volume \in SignalQuantities, threshold \in Thresholds :
             CallTenderSignal(tender_action, tender_price, tender_volume,
                              "JOY_C", threshold, threshold)
       /\ UNCHANGED <<bookVars, pfVars, apiVars, fxVars>>
    \/ /\ \E quantity \in SignalQuantities,
             create_threshold \in Thresholds, redeem_threshold \in Thresholds :
             CallConvertSignal("SAD", "JOY_C", quantity, 0, create_threshold,
                               redeem_threshold, Frac(0, 1))
       /\ UNCHANGED <<bookVars, pfVars, apiVars, fxVars>>
    \/ /\ \E quantity \in SignalQuantities, threshold \in Thresholds :
             CallEtfSignal("JOY_C", "JOY_U", quantity, threshold, threshold)
       /\ UNCHANGED <<bookVars, pfVars, apiVars, fxVars>>

SpecSignals == InitSignals /\ [][NextSignals]_vars

SignalCalculators ==
    {"tender_signal2", "generate_convert_signal", "generate_etf_signal"}

Hedge == At("hedge", 0)
After(strategy) == IF strategy < 4 THEN At("enter", strategy + 1) ELSE Hedge

ToggleOf(strategy) ==
    CASE strategy = 1 -> "strategy1_tender"
      [] strategy = 2 -> "strategy2_convertion"
      [] strategy = 3 -> "strategy3_ETF"
      [] strategy = 4 -> "strategy4_profit_loss"

\* The tender the venue offers, if any, and the quotes it shows.
Tenders == [action : Actions, price : Prices, volume : SignalQuantities]
NoTender == [action |-> "", price |-> 0, volume |-> 0]
Quoted(bid_price, ask_price) ==
    [bid |-> <<[price |-> bid_price, volume |-> 1]>>,
     ask |-> <<[price |-> ask_price, volume |-> 1]>>]
Feeds ==
    {[name \in BookNames |-> book] :
        book \in {EmptyLadder, Quoted(2, 1)}}
    \cup {[name \in BookNames |->
              IF name = "JOY_U" THEN Quoted(2, 2) ELSE Quoted(1, 1)]}
\* The commands the operator enters, by their ordinal.
CommandSlots == {1}
UsdQuote == Frac(1, 1)

\* trading_operator.can_place_order(ordernum) as the loop meets it: the
\* window is pruned; the limit is the configured MAX_ORDERS_PER_SECOND and
\* the time the wall clock's, so the answer is an input of the step.
RateCheck(ordernum, admitted) ==
    LET pruned == PruneCount(order_timestamps, clock)
    IN  /\ order_timestamps' =
              SubSeq(order_timestamps, pruned + 1, Len(order_timestamps))
        /\ api_call' = [NoCall EXCEPT !.op = "can_place_order",
                                      !.quantity = ordernum,
                                      !.pruned = pruned,
                                      !.ret = admitted]
        /\ UNCHANGED <<trade_rules, history_orders, active_orders,
                       completed_orders, cancelled_orders, accepted_tenders, clock>>

\* The head of the while loop of auto_trading (while pausing it sleeps).
LoopTop(admitted) ==
    /\ pc = Top
    /\ ~toggles["pausing"]
    /\ RateCheck(1, admitted)
    /\ pc' = IF admitted THEN At("enter", 1) ELSE Top
    /\ reconciled' = 0
    /\ UNCHANGED <<ladders, sig_call, toggles, unwind, unhedged_tenders,
                   commands, hedgeVars, newsVars>>

\* A strategy whose switch is off returns at once.
SkipStrategy(strategy) ==
    /\ pc = At("enter", strategy)
    /\ ~toggles[ToggleOf(strategy)]
    /\ pc' = After(strategy)
    /\ UNCHANGED <<ladders, sig_call, reconciled, toggles, unwind, unhedged_tenders,
                   commands, hedgeVars, newsVars>>

\* update_data() at the head of an enabled strategy: the books are fed, the
\* gateway reconciles its orders and positions with the venue, and the
\* CAD/USD rate is set.  The variant feeds the books and sets the rate only.
update_data_MarketOnly(strategy, fed, polls, position) ==
    /\ pc = At("enter", strategy)
    /\ toggles[ToggleOf(strategy)]
    /\ update_market_data(fed)
    /\ set_foreign_exchange_rate("CAD", "USD", UsdQuote, UsdQuote)
    /\ pc' = At("signal", strategy)
    /\ UNCHANGED <<pfVars, apiVars, reconciled, toggles, unwind, unhedged_tenders,
                   commands, hedgeVars, newsVars>>
update_data(strategy, fed, polls, position) ==
    /\ pc = At("enter", strategy)
    /\ toggles[ToggleOf(strategy)]
    /\ update_market_data(fed)
    /\ update_all_information(polls, position)
    /\ set_foreign_exchange_rate("CAD", "USD", UsdQuote, UsdQuote)
    /\ reconciled' = strategy
    /\ pc' = At("signal", strategy)
    /\ UNCHANGED <<toggles, unwind, unhedged_tenders,
                   commands, hedgeVars, newsVars>>

\* Where a strategy goes once its calculator has returned: an exception
\* leaves the strategy and auto_trading, a signal is traded, no signal ends
\* the strategy.  A bare number cannot be unpacked into (signal, info).
AfterSignal(strategy, ret) ==
    IF ret.shape # "tuple" THEN At("raised", strategy)
    ELSE IF ret.signal # 0 THEN At("trade", strategy)
    ELSE After(strategy)

\* strategy1 after update_data: the tender, if one is offered and the
\* limiter admits two orders, is priced by tender_signal2.
TenderSignal(tender, admitted) ==
    /\ pc = At("signal", 1)
    /\ IF tender = NoTender
       THEN /\ pc' = After(1)
            /\ UNCHANGED <<apiVars, sig_call, unwind>>
       ELSE /\ RateCheck(2, admitted)
            /\ IF ~admitted
               THEN /\ pc' = After(1)
                    /\ UNCHANGED <<sig_call, unwind>>
               ELSE /\ sig_call' =
                          SigCall("tender_signal2", tender,
                                  tender_signal2(tender.action, tender.price,
                                                 tender.volume, "JOY_C", 0, 0))
                    /\ pc' = AfterSignal(1, sig_call'.ret)
                    /\ unwind' =
                          [quantity_tobe_filled |-> tender.volume,
                           fail_time |-> 0,
                           action_type |-> IF tender.action = "buy"
                                           THEN "sell" ELSE "buy"]
    /\ UNCHANGED <<ladders, reconciled, toggles, unhedged_tenders, commands, hedgeVars, newsVars>>

\* accept_tender_check_limits for the tender priced; the unhedged position
\* is kept within Amounts.
AcceptTender(status, success) ==
    /\ pc = At("trade", 1)
    /\ Abs(unhedged_tenders) + unwind.quantity_tobe_filled <= MaxAmount
    /\ accept_tender_check_limits(1, "A", unwind.quantity_tobe_filled, status,
                                  success)
    /\ pc' = IF api_call'.ret = -1 THEN After(1) ELSE At("unwind", 1)
    /\ UNCHANGED <<ladders, sig_call, reconciled, toggles, unwind, unhedged_tenders,
                   commands, hedgeVars, newsVars>>

\* One turn of `while quantity_tobe_filled > 0`: past five failures the loop
\* breaks, else a market order for what is left is placed.
UnwindGoesOn == unwind.quantity_tobe_filled > 0 /\ ~(unwind.fail_time > 5)

UnwindAttempt(status) ==
    /\ pc = At("unwind", 1)
    /\ UnwindGoesOn
    /\ place_order("A", unwind.quantity_tobe_filled, unwind.action_type, status,
                   PayloadQuantity("A", unwind.quantity_tobe_filled,
                                   unwind.action_type), 1)
    /\ unwind' =
          IF api_call'.ret # -1
          THEN [unwind EXCEPT !.quantity_tobe_filled =
                                  @ - history_orders'[api_call'.ret].initial_volume]
          ELSE [unwind EXCEPT !.fail_time = @ + 1]
    /\ UNCHANGED <<ladders, sig_call, pc, reconciled, toggles, unhedged_tenders,
                   commands, hedgeVars, newsVars>>

\* After the loop: with tender_close_percentage 1 the tender's ticker keeps
\* what was not filled as unhedged, short after a buy-back, long otherwise.
UnwindExit ==
    /\ pc = At("unwind", 1)
    /\ ~UnwindGoesOn
    /\ unhedged_tenders' =
          IF unwind.action_type = "buy"
          THEN unhedged_tenders - unwind.quantity_tobe_filled
          ELSE unhedged_tenders + unwind.quantity_tobe_filled
    /\ pc' = After(1)
    /\ UNCHANGED <<ladders, sig_call, reconciled, toggles, unwind, commands, hedgeVars, newsVars>>

\* strategy2 after update_data: generate_convert_signal, if the limiter
\* admits five orders.
ConvertSignal(quantity, create_threshold, redeem_threshold, admitted) ==
    /\ pc = At("signal", 2)
    /\ RateCheck(5, admitted)
    /\ IF ~admitted
       THEN /\ pc' = After(2)
            /\ UNCHANGED sig_call
       ELSE /\ sig_call' =
                  SigCall("generate_convert_signal",
                          [quantity |-> quantity,
                           create_threshold |-> create_threshold,
                           redeem_threshold |-> redeem_threshold],
                          generate_convert_signal("SAD", 1, "JOY_C", quantity, 0, 0,
                                                  create_threshold,
                                                  redeem_threshold, Frac(0, 1)))
            /\ pc' = AfterSignal(2, sig_call'.ret)
    /\ UNCHANGED <<ladders, reconciled, toggles, unwind, unhedged_tenders,
                   commands, hedgeVars, newsVars>>

\* strategy3 after update_data: generate_etf_signal, if the limiter admits
\* two orders; `signal_etf, order_info = ...` unpacks what it returns.
EtfSignal(quantity, threshold, admitted) ==
    /\ pc = At("signal", 3)
    /\ RateCheck(2, admitted)
    /\ IF ~admitted
       THEN /\ pc' = After(3)
            /\ UNCHANGED sig_call
       ELSE /\ sig_call' =
                  SigCall("generate_etf_signal",
                          [quantity |-> quantity, threshold |-> threshold],
                          generate_etf_signal("JOY_C", "JOY_U", quantity, threshold,
                                              threshold))
            /\ pc' = AfterSignal(3, sig_call'.ret)
    /\ UNCHANGED <<ladders, reconciled, toggles, unwind, unhedged_tenders,
                   commands, hedgeVars, newsVars>>

\* strategy4 after update_data: an unhedged tender position past its
\* take-profit or stop-loss line is closed.
ProfitLossCheck(crossed) ==
    /\ pc = At("signal", 4)
    /\ pc' = IF unhedged_tenders # 0 /\ crossed THEN At("trade", 4) ELSE After(4)
    /\ UNCHANGED <<ladders, sig_call, reconciled, toggles, unwind, unhedged_tenders,
                   commands, hedgeVars, newsVars>>

\* The order a strategy places on its signal.  strategy4 reads
\* order_result.initial_volume, which -1 does not have, and then clears
\* the unhedged position.
StrategyOrder(strategy, action, status) ==
    /\ strategy \in {2, 3, 4}
    /\ pc = At("trade", strategy)
    /\ place_order("A", 1, action, status, PayloadQuantity("A", 1, action), 1)
    /\ pc' = IF strategy = 4 /\ api_call'.ret = -1
             THEN At("raised", 4) ELSE After(strategy)
    /\ unhedged_tenders' = IF strategy = 4 /\ api_call'.ret # -1
                           THEN 0 ELSE unhedged_tenders
    /\ UNCHANGED <<ladders, sig_call, reconciled, toggles, unwind, commands, hedgeVars, newsVars>>

\* place_currency_order(ticker, action, quantity): the quantity is clipped to
\* the subaccount's maximum_transaction_size; the venue answers with status.
\* Nothing is recorded in order_timestamps or in the order sets.
CurrencyQuantity(ticker, quantity) ==
    IF quantity > trade_rules[ticker].maximum_trade_size
    THEN trade_rules[ticker].maximum_trade_size
    ELSE quantity

place_currency_order(ticker, action, quantity, status) ==
    LET call == [NoCall EXCEPT !.op = "place_currency_order", !.ticker = ticker,
                               !.quantity = quantity, !.action = action]
        sent == CurrencyQuantity(ticker, quantity)
    IN  /\ api_call' =
              IF ~trade_rules[ticker].is_tradeable
              THEN [call EXCEPT !.ret = -1]
              ELSE [call EXCEPT !.status = status, !.sent = sent,
                                !.ret = IF status = 200 THEN sent ELSE -1]
        /\ UNCHANGED <<trade_rules, history_orders, active_orders, completed_orders,
                       cancelled_orders, accepted_tenders, order_timestamps, clock>>

Hedging == At("hedging", 0)

\* The end of an iteration: update_position (the positions and the USD
\* balance the venue reports), then usd_ and usd_action are read off the
\* balance.
HedgeStep(position, balance) ==
    /\ pc = Hedge
    /\ update_position(position)
    /\ update_balance("USD", balance)
    /\ usd_' = balance
    /\ usd_action' = IF balance > 0 THEN "sell" ELSE "buy"
    /\ pc' = Hedging
    /\ UNCHANGED <<gross_limit, net_limit, max_usage, gross_position,
                   net_position, pf_call>>
    /\ UNCHANGED <<ladders, sig_call, reconciled, toggles, unwind, unhedged_tenders,
                   commands, newsVars>>

\* One pass of `while abs(usd_) > 0`: -1 breaks, anything else is taken off
\* the balance left.  The variant takes nothing off.
HedgeAttempt_NothingOff(status) ==
    /\ pc = Hedging
    /\ Abs(usd_) > 0
    /\ place_currency_order("USD", usd_action, Abs(usd_), status)
    /\ IF api_call'.ret = -1
       THEN /\ pc' = Top
            /\ UNCHANGED usd_
       ELSE /\ usd_' = Abs(usd_)
            /\ pc' = pc
    /\ UNCHANGED <<ladders, sig_call, reconciled, toggles, unwind, unhedged_tenders,
                   commands, usd_action, newsVars>>
HedgeAttempt(status) ==
    /\ pc = Hedging
    /\ Abs(usd_) > 0
    /\ place_currency_order("USD", usd_action, Abs(usd_), status)
    /\ IF api_call'.ret = -1
       THEN /\ pc' = Top
            /\ UNCHANGED usd_
       ELSE /\ usd_' = Abs(usd_) - Abs(api_call'.ret)
            /\ pc' = pc
    /\ UNCHANGED <<ladders, sig_call, reconciled, toggles, unwind, unhedged_tenders,
                   commands, usd_action, newsVars>>

\* The balance left is zero: the loop ends and the thread sleeps.
HedgeExit ==
    /\ pc = Hedging
    /\ ~(Abs(usd_) > 0)
    /\ pc' = Top
    /\ UNCHANGED <<ladders, sig_call, reconciled, toggles, unwind, unhedged_tenders,
                   commands, hedgeVars, newsVars>>

\* process_commands: p and r, s1 .. s4 and r1 .. r4 set a switch.
CommandToggle(name, value) ==
    /\ commands + 1 \in CommandSlots
    /\ commands' = commands + 1
    /\ toggles' = [toggles EXCEPT ![name] = value]
    /\ UNCHANGED <<ladders, sig_call, pc, reconciled, unwind, unhedged_tenders,
                   hedgeVars, newsVars>>

\* process_commands: b and s (and fc, fo, fb, fs) place the operator's order.
CommandOrder(action, status) ==
    /\ commands + 1 \in CommandSlots
    /\ commands' = commands + 1
    /\ place_order("A", 1, action, status, PayloadQuantity("A", 1, action), 1)
    /\ UNCHANGED <<ladders, sig_call, pc, reconciled, toggles, unwind,
                   unhedged_tenders, hedgeVars, newsVars>>

LoopStatuses == {200, 500}

\* The venue's rules for the USD subaccount and the balances it reports.
CashRules == [is_tradeable |-> TRUE, is_shortable |-> TRUE, maximum_trade_size |-> 1]
LoopBalances == {2}

\* After initialize_portfolio: the instrument and the USD subaccount.
LoopInitialized(rules) ==
    /\ GatewayFlat
    /\ BookConstructed
    /\ trade_rules = [t \in OrderTickers \cup {"USD"} |->
                         IF t = "USD" THEN rules ELSE OpenRules]
    /\ exchange_rates = NoBatch
    /\ subaccounts = [c \in {"USD"} |-> 0]
    /\ fx_call = FxCall("init", "", "", 0, "", None)
    /\ ladders = [name \in BookNames |-> EmptyLadder]
    /\ sig_call = SigCall("init", NoBatch, NoBatch)

InitLoop ==
    /\ LoopInitialized(CashRules)
    /\ LoopConstructed

MainThread ==
    \/ /\ \E admitted \in BOOLEAN : LoopTop(admitted)
       /\ UNCHANGED <<bookVars, pfVars, fxVars>>
    \/ /\ \E strategy \in 1..4 : SkipStrategy(strategy)
       /\ UNCHANGED <<bookVars, pfVars, apiVars, fxVars>>
    \/ /\ \E strategy \in 1..4, fed \in Feeds, polls \in PollTables,
             position \in [OrderTickers -> Holdings] :
             update_data(strategy, fed, polls, position)
       /\ UNCHANGED bookVars
    \/ /\ \E tender \in Tenders \cup {NoTender}, admitted \in BOOLEAN :
             TenderSignal(tender, admitted)
       /\ UNCHANGED <<bookVars, pfVars, fxVars>>
    \/ /\ \E status \in TenderStatuses, success \in BOOLEAN :
             AcceptTender(status, success)
       /\ UNCHANGED <<bookVars, pfVars, fxVars>>
    \/ /\ \E status \in LoopStatuses : UnwindAttempt(status)
       /\ UNCHANGED <<bookVars, pfVars, fxVars>>
    \/ /\ UnwindExit
       /\ UNCHANGED <<bookVars, pfVars, apiVars, fxVars>>
    \/ /\ \E quantity \in SignalQuantities, admitted \in BOOLEAN :
             ConvertSignal(quantity, 0, 0, admitted)
       /\ UNCHANGED <<bookVars, pfVars, fxVars>>
    \/ /\ \E quantity \in SignalQuantities, admitted \in BOOLEAN :
             EtfSignal(quantity, 0, admitted)
       /\ UNCHANGED <<bookVars, pfVars, fxVars>>
    \/ /\ \E crossed \in BOOLEAN : ProfitLossCheck(crossed)
       /\ UNCHANGED <<bookVars, pfVars, apiVars, fxVars>>
    \/ /\ \E strategy \in {2, 3, 4}, action \in Actions, status \in LoopStatuses :
             StrategyOrder(strategy, action, status)
       /\ UNCHANGED <<bookVars, pfVars, fxVars>>
    \/ /\ \E position \in [OrderTickers -> Holdings], balance \in LoopBalances :
             HedgeStep(position, balance)
       /\ UNCHANGED <<bookVars, apiVars>>
    \/ /\ \E status \in LoopStatuses : HedgeAttempt(status)
       /\ UNCHANGED <<bookVars, pfVars, fxVars>>
    \/ /\ HedgeExit
       /\ UNCHANGED <<bookVars, pfVars, apiVars, fxVars>>

CommandThread ==
    \/ /\ \E name \in ToggleNames, value \in BOOLEAN : CommandToggle(name, value)
       /\ UNCHANGED <<bookVars, pfVars, apiVars, fxVars>>
    \/ /\ \E action \in Actions, status \in LoopStatuses :
             CommandOrder(action, status)
       /\ UNCHANGED <<bookVars, pfVars, fxVars>>

NextLoop == MainThread \/ CommandThread

SpecLoop == InitLoop /\ [][NextLoop]_vars


(***************************************************************************)
(* Claims about the main loop (checked under SpecLoop)                     *)
(***************************************************************************)
\* The book of the tender last priced cannot fill the tender's volume on
\* the side strategy1 would unwind it on.
TenderDepthShort ==
    /\ sig_call.op = "tender_signal2"
    /\ BookVwap("JOY_C", sig_call.args.volume,
                IF sig_call.args.action = "sell" THEN "buy" ELSE "sell",
                TRUE).isNone

\* C27: when the ladder cannot fill the quantity a strategy asks about, no
\* exception leaves the strategy step: the strategy skips the trade and the
\* loop goes on.
C27_DepthHandled == ~(pc = At("raised", 1) /\ TenderDepthShort)

\* C28: the history of orders, the active, completed and cancelled order
\* sets, the rate-limit window, the positions and the cash are written by
\* the main loop only: no step of the command thread changes them.
C28_SingleWriter ==
    [][commands' # commands =>
          UNCHANGED <<history_orders, active_orders, completed_orders,
                      cancelled_orders, order_timestamps, assets, subaccounts>>]_vars

C30_UnwindBounded ==
    [][pc = At("unwind", 1) /\ commands' = commands =>
          /\ unwind'.fail_time <= 5
          /\ pc' # pc =>
                unhedged_tenders' =
                    IF unwind.action_type = "buy"
                    THEN unhedged_tenders - unwind.quantity_tobe_filled
                    ELSE unhedged_tenders + unwind.quantity_tobe_filled]_vars


(***************************************************************************)
(* auto_trading: the currency hedge at the end of an iteration             *)
(***************************************************************************)
\* The rules the venue may list for the USD subaccount.
HedgeRules ==
    [is_tradeable : BOOLEAN, is_shortable : {TRUE}, maximum_trade_size : MaxTradeSizes]

\* Every strategy is switched off in the configuration: an iteration is the
\* head of the loop, four strategies that return at once, and the hedge.
InitHedge ==
    /\ \E rules \in HedgeRules : LoopInitialized(rules)
    /\ LoopConfigured([name \in ToggleNames |-> FALSE])

HedgeLoop ==
    \/ /\ \E status \in LoopStatuses : HedgeAttempt(status)
       /\ UNCHANGED <<bookVars, pfVars, fxVars>>
    \/ /\ HedgeExit
       /\ UNCHANGED <<bookVars, pfVars, apiVars, fxVars>>

NextHedge ==
    \/ /\ \E admitted \in BOOLEAN : LoopTop(admitted)
       /\ UNCHANGED <<bookVars, pfVars, fxVars>>
    \/ /\ \E strategy \in 1..4 : SkipStrategy(strategy)
       /\ UNCHANGED <<bookVars, pfVars, apiVars, fxVars>>
    \/ /\ \E position \in [OrderTickers -> Holdings], balance \in Amounts :
             HedgeStep(position, balance)
       /\ UNCHANGED <<bookVars, apiVars>>
    \/ HedgeLoop

\* The main thread is scheduled and the venue answers every request.
SpecHedge == InitHedge /\ [][NextHedge]_vars /\ WF_vars(HedgeLoop)

\* C31: the hedging loop terminates; each pass submits the balance left,
\* clipped to the subaccount's maximum transaction size; the loop ends when
\* nothing is left or as soon as place_currency_order returns -1; a pass
\* that does not end the loop lowers the balance left.
C31_HedgeTerminates ==
    /\ (pc = Hedging) ~> (pc = Top)
    /\ [][pc = Hedging =>
             /\ Abs(usd_) > 0 =>
                   /\ api_call'.op = "place_currency_order"
                   /\ api_call'.quantity = Abs(usd_)
                   /\ trade_rules["USD"].is_tradeable =>
                         api_call'.sent =
                             Min(Abs(usd_), trade_rules["USD"].maximum_trade_size)
                   /\ (api_call'.ret = -1) <=> (pc' = Top)
             /\ pc' = Top => (Abs(usd_) = 0 \/ api_call'.ret = -1)
             /\ pc' = Hedging => Abs(usd_') < Abs(usd_)]_vars

\* The loop has ended with nothing left after a pass for less than the
\* balance: an earlier pass was clipped.
C31_HedgedInParts ==
    /\ pc = Top
    /\ usd_ = 0
    /\ api_call.op = "place_currency_order"
    /\ api_call.ret # -1
    /\ api_call.quantity < Abs(subaccounts["USD"])


(***************************************************************************)
(* TenderBook and ClientDataFetcher.get_tenders                            *)
(***************************************************************************)
MaxTenders == 2
PolledIds == {1, 2, 3}
Ticks == {1, 2}
\* A tender as the venue lists it, and the lists it may answer with.
VenueTenders == [tender_id : PolledIds, tick : {1}, expires : Ticks]
Responses == UNION {[1..n -> VenueTenders] : n \in 0..MaxTenders}
ResponseIds(response) == {response[i].tender_id : i \in DOMAIN response}

\* Tender(...) with __post_init__: valid = tick < expire
Tender(listed) ==
    [id |-> listed.tender_id, tick |-> listed.tick, expire |-> listed.expires,
     valid |-> listed.tick < listed.expires]

NewsCall(op, ok, response) == [op |-> op, ok |-> ok, response |-> response]
TenderBook(current, history) == [tenders |-> current, history_tenders |-> history]
Assign(table, key, value) ==
    [k \in DOMAIN table \cup {key} |-> IF k = key THEN value ELSE table[k]]
Without(table, keys) == [k \in DOMAIN table \ keys |-> table[k]]

\* TenderBook.add_tender, delete_tender and clear_tenders
add_tender(book, tender) ==
    TenderBook(Assign(book.tenders, tender.id, tender),
               Assign(book.history_tenders, tender.id, tender))
delete_tender(book, tender_id) ==
    TenderBook(Without(book.tenders, {tender_id}), book.history_tenders)
clear_tenders(book) == TenderBook(NoBatch, book.history_tenders)

\* `for tender in tenders`: a tender whose id the book does not hold is added.
RECURSIVE ReadTenders(_, _, _)
ReadTenders(book, response, i) ==
    IF i > Len(response) THEN book
    ELSE ReadTenders(IF response[i].tender_id \notin DOMAIN book.tenders
                     THEN add_tender(book, Tender(response[i]))
                     ELSE book,
                     response, i + 1)

\* `for tender_id in expired`
RECURSIVE DeleteExpired(_, _)
DeleteExpired(book, expired) ==
    IF expired = {} THEN book
    ELSE LET tender_id == CHOOSE id \in expired : TRUE
         IN  DeleteExpired(delete_tender(book, tender_id), expired \ {tender_id})

\* get_tenders(tender_book): the venue answers ok or not, and with a list.
\* The variant does not delete the tenders the list no longer holds.
Polled_KeepAbsent(book, response) ==
    IF Len(response) > 0
    THEN ReadTenders(book, response, 1)
    ELSE clear_tenders(book)
Polled(book, response) ==
    IF Len(response) > 0
    THEN LET read == ReadTenders(book, response, 1)
         IN  DeleteExpired(read, DOMAIN read.tenders \ ResponseIds(response))
    ELSE clear_tenders(book)

get_tenders(ok, response) ==
    /\ news_call' = NewsCall("get_tenders", ok, response)
    /\ IF ok
       THEN /\ tenders' = Polled(TenderBook(tenders, history_tenders), response).tenders
            /\ history_tenders' =
                  Polled(TenderBook(tenders, history_tenders), response).history_tenders
       ELSE UNCHANGED <<tenders, history_tenders>>
    /\ UNCHANGED <<ladders, sig_call, pc, reconciled, toggles, unwind,
                   unhedged_tenders, commands, hedgeVars>>

\* TenderBook.clear_expired_tenders(current_tick)
clear_expired_tenders(current_tick) ==
    /\ tenders' = Without(tenders, {id \in DOMAIN tenders :
                                       ~(tenders[id].expire >= current_tick)})
    /\ news_call' = NewsCall("clear_expired_tenders", FALSE, <<>>)
    /\ UNCHANGED <<ladders, sig_call, pc, reconciled, toggles, unwind,
                   unhedged_tenders, commands, hedgeVars, history_tenders>>

InitTenders == InitBook

NextTenders ==
    \/ /\ \E ok \in BOOLEAN, response \in Responses : get_tenders(ok, response)
       /\ UNCHANGED <<bookVars, pfVars, apiVars, fxVars>>
    \/ /\ \E current_tick \in Ticks : clear_expired_tenders(current_tick)
       /\ UNCHANGED <<bookVars, pfVars, apiVars, fxVars>>

SpecTenders == InitTenders /\ [][NextTenders]_vars

\* C32: after every successful poll the ids of tender_book.tenders are the
\* ids of the venue's list, whatever the expiry ticks; and every id the book
\* has held or the venue has listed stays in history_tenders.
C32_PollReconciles ==
    /\ [](news_call.op = "get_tenders" /\ news_call.ok =>
             DOMAIN tenders = ResponseIds(news_call.response))
    /\ [](DOMAIN tenders \subseteq DOMAIN history_tenders)
    /\ [][/\ DOMAIN history_tenders \subseteq DOMAIN history_tenders'
          /\ (news_call'.op = "get_tenders" /\ news_call'.ok) =>
                ResponseIds(news_call'.response) \subseteq DOMAIN history_tenders']_vars

\* A poll has dropped a tender that had not expired (it is in the history,
\* valid, and no longer in the book) while keeping one that is listed past
\* its expiry tick.
C32_DroppedByAbsence ==
    /\ news_call.op = "get_tenders"
    /\ news_call.ok
    /\ \E id \in DOMAIN history_tenders \ DOMAIN tenders : history_tenders[id].valid
    /\ \E id \in DOMAIN tenders : ~tenders[id].valid


(***************************************************************************)
(* OrderBook.delete_order and clear_orders                                 *)
(***************************************************************************)
\* The record of a call that edits the book and the exception it ended with.
BookEdit(op, raises) ==
    [op |-> op, quantity |-> 0, action |-> "buy", consider_cost |-> FALSE,
     ret |-> None, raises |-> raises]

\* while curr: if curr.id == id / if current.price == price: ... return
\* The id of an order is its creation ordinal.
RECURSIVE FindId(_, _)
FindId(curr, id) ==
    IF curr = 0 \/ curr = id THEN curr ELSE FindId(next[curr], id)
RECURSIVE FindPrice(_, _)
FindPrice(current, price) ==
    IF current = 0 \/ orders[current].price = price THEN current
    ELSE FindPrice(next[current], price)

\* if current.prev: current.prev.next = current.next
\* if current.next: current.next.prev = current.prev
\* if self.bid_head == current: self.bid_head = current.next
Unlink(current, order_type) ==
    /\ next' = IF prev[current] # 0
               THEN [next EXCEPT ![prev[current]] = next[current]]
               ELSE next
    /\ prev' = IF next[current] # 0
               THEN [prev EXCEPT ![next[current]] = prev[current]]
               ELSE prev
    /\ IF order_type = "bid"
       THEN /\ bid_head' = IF bid_head = current THEN next[current] ELSE bid_head
            /\ UNCHANGED ask_head
       ELSE /\ ask_head' = IF ask_head = current THEN next[current] ELSE ask_head
            /\ UNCHANGED bid_head

MapOf(order_type) == IF order_type = "bid" THEN bid_map ELSE ask_map
SetMapOf(order_type, map) ==
    IF order_type = "bid"
    THEN bid_map' = map /\ UNCHANGED ask_map
    ELSE ask_map' = map /\ UNCHANGED bid_map

\* list.remove(current): the first occurrence is taken out
RECURSIVE ListRemove(_, _)
ListRemove(list, current) ==
    IF list = <<>> THEN <<>>
    ELSE IF Head(list) = current THEN Tail(list)
    ELSE <<Head(list)>> \o ListRemove(Tail(list), current)
InList(list, current) == \E i \in DOMAIN list : list[i] = current

\* _delete_order_by_id: the maps are not touched.
delete_order_by_id(id, order_type) ==
    LET curr == FindId(HeadOf(order_type), id)
    IN  /\ IF curr # 0
           THEN Unlink(curr, order_type)
           ELSE UNCHANGED <<next, prev, bid_head, ask_head>>
        /\ book_call' = BookEdit("delete_order_by_id", "")
        /\ UNCHANGED <<orders, bid_map, ask_map, transaction_fee>>

\* `if current.volume > volume`: the order stays and is filled by volume.
\* The variant takes the branch for every order.
StaysPartFilled_Always(current_volume, volume) == TRUE
StaysPartFilled(current_volume, volume) == current_volume > volume

\* _delete_order_by_price: the first order of the price met from the head
\* is handled, then the method returns.  An order that is taken out is
\* unlinked before the map is edited, so an exception of the map edit
\* leaves it unlinked.
delete_order_by_price(price, order_type, has_volume, volume) ==
    LET current == FindPrice(HeadOf(order_type), price)
        map == MapOf(order_type)
    IN  /\ UNCHANGED transaction_fee
        /\ IF current = 0
           THEN /\ book_call' = BookEdit("delete_order_by_price", "")
                /\ UNCHANGED <<orders, next, prev, bid_head, ask_head, bid_map, ask_map>>
           ELSE IF has_volume /\ StaysPartFilled(orders[current].volume, volume)
           THEN /\ orders' =
                      [orders EXCEPT ![current] =
                          update_filled_volume(@, @.filled_volume + volume)]
                /\ book_call' = BookEdit("delete_order_by_price", "")
                /\ UNCHANGED <<next, prev, bid_head, ask_head, bid_map, ask_map>>
           ELSE /\ Unlink(current, order_type)
                /\ UNCHANGED orders
                /\ IF price \notin DOMAIN map
                   THEN /\ book_call' = BookEdit("delete_order_by_price", "KeyError")
                        /\ UNCHANGED <<bid_map, ask_map>>
                   ELSE IF ~has_volume
                   THEN /\ SetMapOf(order_type, Without(map, {price}))
                        /\ book_call' = BookEdit("delete_order_by_price", "")
                   ELSE IF ~InList(map[price], current)
                   THEN /\ book_call' = BookEdit("delete_order_by_price", "ValueError")
                        /\ UNCHANGED <<bid_map, ask_map>>
                   ELSE /\ SetMapOf(order_type,
                                    [map EXCEPT ![price] = ListRemove(@, current)])
                        /\ book_call' = BookEdit("delete_order_by_price", "")

\* delete_order(order_type, volume, by, price, id)
delete_order(order_type, has_volume, volume, by, price, id) ==
    IF by = "price"
    THEN delete_order_by_price(price, order_type, has_volume, volume)
    ELSE delete_order_by_id(id, order_type)

clear_orders ==
    /\ bid_head' = 0
    /\ ask_head' = 0
    /\ bid_map' = EmptyMap
    /\ ask_map' = EmptyMap
    /\ book_call' = BookEdit("clear_orders", "")
    /\ UNCHANGED <<orders, next, prev, transaction_fee>>

\* The book is inserted into and deleted from; the gateway places orders
\* and polls them.  At most MaxOrders Order objects are built in all.
InitEdit == InitOrders
OrdersBuilt == Len(orders) + Cardinality(DOMAIN history_orders)

NextEdit ==
    \/ /\ OrdersBuilt < MaxOrders
       /\ \E price \in Prices, side \in Sides, filled_volume \in {0, 1} :
             insert_order(price, 2, filled_volume, side)
       /\ UNCHANGED <<pfVars, apiVars, fxVars, algoVars>>
    \/ /\ \E order_type \in Sides, id \in 1..MaxOrders :
             delete_order(order_type, FALSE, 0, "id", 0, id)
       /\ UNCHANGED <<pfVars, apiVars, fxVars, algoVars>>
    \/ /\ \E order_type \in Sides, price \in Prices :
             delete_order(order_type, FALSE, 0, "price", price, 0)
       /\ UNCHANGED <<pfVars, apiVars, fxVars, algoVars>>
    \/ /\ \E order_type \in Sides, price \in Prices, volume \in Volumes :
             delete_order(order_type, TRUE, volume, "price", price, 0)
       /\ UNCHANGED <<pfVars, apiVars, fxVars, algoVars>>
    \/ /\ clear_orders
       /\ UNCHANGED <<pfVars, apiVars, fxVars, algoVars>>
    \/ /\ OrdersBuilt < MaxOrders
       /\ \E quantity_filled \in {0, 1} :
             place_order("A", 2, "buy", 200, quantity_filled, 1)
       /\ UNCHANGED <<bookVars, pfVars, fxVars, algoVars>>
    \/ /\ \E polls \in PollTables, position \in [OrderTickers -> {0}] :
             update_all_information(polls, position)
       /\ UNCHANGED <<bookVars, fxVars, algoVars>>

SpecEdit == InitEdit /\ [][NextEdit]_vars

\* The orders met from the two heads.
InBook == {Traverse(bid_head)[i] : i \in DOMAIN Traverse(bid_head)}
          \cup {Traverse(ask_head)[i] : i \in DOMAIN Traverse(ask_head)}

\* C33: every Order, in the book and in history_orders, has
\* volume = initial_volume - filled_volume and volume >= 0.
C33_VolumeIsRemainder ==
    /\ \A o \in InBook :
          /\ orders[o].volume = orders[o].initial_volume - orders[o].filled_volume
          /\ orders[o].volume >= 0
    /\ \A id \in DOMAIN history_orders :
          /\ history_orders[id].volume =
                history_orders[id].initial_volume - history_orders[id].filled_volume
          /\ history_orders[id].volume >= 0

\* A resting order has been cut by a delete by price with a volume, and a
\* placed order has been filled further by a poll.
C33_CutAndFilled ==
    /\ book_call.op = "delete_order_by_price"
    /\ \E o \in InBook : orders[o].filled_volume > 0 /\ orders[o].volume > 0
    /\ api_call.op = "update_all_information"
    /\ \E id \in DOMAIN history_orders : history_orders[id].filled_volume > 0


(***************************************************************************)
(* Claims about the heads and the reach of the lists (checked under        *)
(* SpecBook)                                                               *)
(***************************************************************************)
\* C34: after any sequence of insert_order calls bid_head is the resting
\* bid of the highest price and ask_head the resting ask of the lowest
\* price.
C34_HeadIsBest ==
    /\ \A o \in Resting("bid") :
          bid_head # 0 /\ orders[bid_head].price >= orders[o].price
    /\ \A o \in Resting("ask") :
          ask_head # 0 /\ orders[ask_head].price <= orders[o].price

FromHead(side) ==
    LET seq == Traverse(HeadOf(side)) IN {seq[i] : i \in DOMAIN seq}

\* C35: no inserted order is lost: every inserted order of a side is met
\* from that side's head by following next, and get_total_bid_volume /
\* get_total_ask_volume equal the sum of the volumes of the inserted orders.
C35_NothingLost ==
    \A side \in Sides :
       /\ Resting(side) \subseteq FromHead(side)
       /\ GetTotalVolume(side) = TotalDepth(side)


(***************************************************************************)
(* Claims about the price maps (checked under SpecEdit)                    *)
(***************************************************************************)
MapOrders(map, price) == {map[price][i] : i \in DOMAIN map[price]}

\* C36: after insert_order, delete_order (by id, by price, by price with a
\* volume) and clear_orders, bid_map and ask_map agree with the linked
\* lists: a price is a key of a side's map exactly when an order of that
\* price is met from the side's head, the entry lists exactly those orders,
\* and no entry is left for a price with no resting order.
C36_MapsAgreeWithLists ==
    \A side \in Sides :
       LET map == MapOf(side)
           linked == FromHead(side)
       IN  /\ \A price \in DOMAIN map :
                /\ MapOrders(map, price) # {}
                /\ MapOrders(map, price)
                     = {o \in linked : orders[o].price = price}
           /\ \A o \in linked : orders[o].price \in DOMAIN map


(***************************************************************************)
(* Claims about the order sets (checked under SpecOrders)                  *)
(***************************************************************************)
\* C37: in every reachable state, whatever the venue answers,
\* active_orders, completed_orders and cancelled_orders are pairwise
\* disjoint, and every id of active_orders or completed_orders is a key of
\* history_orders.
C37_OrderSetsPartition ==
    /\ active_orders \cap completed_orders = {}
    /\ active_orders \cap cancelled_orders = {}
    /\ completed_orders \cap cancelled_orders = {}
    /\ (active_orders \cup completed_orders) \subseteq DOMAIN history_orders


(***************************************************************************)
(* SpecRate: the rate limiter with the wall clock.  Time passes; the head  *)
(* of the main loop asks can_place_order(1) and gets the answer the window *)
(* gives; the strategies are switched off, the loop hedges the USD         *)
(* balance, and the operator enters manual orders on the command thread.   *)
(***************************************************************************)
InitRate ==
    /\ LoopInitialized(CashRules)
    /\ LoopConfigured([name \in ToggleNames |-> FALSE])

\* b / s of process_commands: place_order without can_place_order.
ManualOrder(action, status) ==
    /\ place_order("A", 1, action, status, PayloadQuantity("A", 1, action), 1)
    /\ UNCHANGED <<bookVars, pfVars, fxVars, algoVars>>

NextRate ==
    \/ /\ Tick
       /\ UNCHANGED <<bookVars, pfVars, fxVars, algoVars>>
    \/ /\ \E admitted \in BOOLEAN :
             /\ LoopTop(admitted)
             /\ admitted = Admits(order_timestamps', 1)
       /\ UNCHANGED <<bookVars, pfVars, fxVars>>
    \/ /\ \E strategy \in 1..4 : SkipStrategy(strategy)
       /\ UNCHANGED <<bookVars, pfVars, apiVars, fxVars>>
    \/ /\ \E position \in [OrderTickers -> Holdings], balance \in LoopBalances :
             HedgeStep(position, balance)
       /\ UNCHANGED <<bookVars, apiVars>>
    \/ /\ \E status \in LoopStatuses : HedgeAttempt(status)
       /\ UNCHANGED <<bookVars, pfVars, fxVars>>
    \/ /\ HedgeExit
       /\ UNCHANGED <<bookVars, pfVars, apiVars, fxVars>>
    \/ \E action \in Actions, status \in LoopStatuses : ManualOrder(action, status)

SpecRate == InitRate /\ [][NextRate]_vars

\* The orders the window records for one instant.
StampedAt(t) == {i \in DOMAIN order_timestamps : order_timestamps[i] = t}

\* C38: in every interleaving of the main loop and the command thread the
\* number of orders sent to the venue within one second stays below
\* MAX_ORDERS_PER_SECOND - 2 (here even for the orders of one instant).
C38_RateBounded ==
    \A t \in 0..MaxTime : Cardinality(StampedAt(t)) < MAX_ORDERS_PER_SECOND - 2


(***************************************************************************)
(* SpecRates: the rate table with three currencies, so that one base       *)
(* currency can be quoted against two others.                              *)
(***************************************************************************)
RateCurrencies == {"CAD", "USD", "EUR"}
Quotes == {Frac(1, 1), Frac(2, 1)}

NextRates ==
    /\ \E base_currency \in RateCurrencies, quote_currency \in RateCurrencies,
          bid_rate \in Quotes, ask_rate \in Quotes :
          /\ base_currency # quote_currency
          /\ set_foreign_exchange_rate(base_currency, quote_currency,
                                       bid_rate, ask_rate)
    /\ UNCHANGED <<bookVars, pfVars, apiVars, algoVars>>

SpecRates == InitFx /\ [][NextRates]_vars

\* C39: set_foreign_exchange_rate(base, quote, bid, ask) changes the entry
\* of the pair (base, quote) only: every rate stored before for another
\* pair, a pair of the same base and another quote included, is returned
\* unchanged by get_exchange_rate afterwards.
C39_OtherPairsKept ==
    [][\A b \in RateCurrencies, q \in RateCurrencies, action \in Actions :
          (/\ fx_call'.op = "set_foreign_exchange_rate"
           /\ b # q
           /\ Stored(b, q)
           /\ <<b, q>> # <<fx_call'.from_currency, fx_call'.to_currency>>)
          => get_exchange_rate(b, q, action)' = get_exchange_rate(b, q, action)]_vars


(***************************************************************************)
(* SpecPass: passes of strategy1 over the tenders on offer.  update_data   *)
(* refreshes the ledger at the head of a pass; within the pass each tender *)
(* is pre-checked and answered in turn.  The venue offers a tender once.   *)
(***************************************************************************)
PassTenderIds == {1, 2}
TenderVolumes == 1..MaxPos

PassAccept(tender_id, asset_name, volume, status, success) ==
    /\ tender_id \notin accepted_tenders
    /\ accept_tender_check_limits(tender_id, asset_name, volume, status, success)
    /\ UNCHANGED <<bookVars, pfVars, fxVars, algoVars>>

NextPass ==
    \/ /\ \E polls \in PollTables, position \in [Tickers -> Positions] :
             update_all_information(polls, position)
       /\ UNCHANGED <<bookVars, fxVars, algoVars>>
    \/ \E tender_id \in PassTenderIds, asset_name \in Tickers,
          volume \in TenderVolumes, status \in TenderStatuses, success \in BOOLEAN :
          PassAccept(tender_id, asset_name, volume, status, success)

SpecPass == InitPortfolio /\ [][NextPass]_vars

\* The last call accepted a tender.
TenderTaken(call) == call.op = "accept_tender_check_limits" /\ call.ret = 1

\* C40: within one pass of strategy1 (no refresh between the two calls) the
\* pre-check of a tender counts the tender accepted before it: two tenders
\* of one instrument accepted in a pass are, taken together, within the
\* limits check_limits tests.
C40_PassWithinLimits ==
    [][(/\ TenderTaken(api_call)
        /\ TenderTaken(api_call')
        /\ api_call'.order_id # api_call.order_id
        /\ api_call'.ticker = api_call.ticker)
       => ~check_limits(api_call.ticker, api_call.quantity + api_call'.quantity)]_vars

====
